---- MODULE Spec2Model ----
(***************************************************************************)
(* cdx_proxy_cli_v2: the token rotation pool (auth/rotation.py,            *)
(* auth/models.py), the trace ring buffer (observability/trace_store.py)   *)
(* and the forwarding/retry loop of the proxy handler (proxy/server.py).   *)
(*                                                                         *)
(* Time is time.time() in whole seconds.  The specifications share the    *)
(* variables: SpecPool drives a pool of two tokens alone, SpecOne a pool   *)
(* of one token through blacklist and probation, SpecTrace the trace store *)
(* with concurrent threads, SpecProxy concurrent request handlers on top   *)
(* of the pool and the store (SpecProxyFair: with the handler threads      *)
(* scheduled).  The JSONL event log and the client socket are external     *)
(* and do not fail.                                                        *)
(***************************************************************************)
EXTENDS Integers, Sequences, FiniteSets, TLC

VARIABLES
    now,        \* time.time()
    states,     \* RoundRobinAuthPool._states: sequence of AuthState
    index,      \* RoundRobinAuthPool._index
    ev,         \* the last pool operation: its name, the token file it returned or was given, the status reported
    ops,        \* how many loads, returned picks, failure results and clock advances so far
    marked401,  \* name -> time of the last 401 applied to the current token, -1 if none
    probed,     \* name -> time of the last pick of the token while in probation, -1 if none
    items,      \* TraceStore._items
    seq,        \* TraceStore._seq
    lock,       \* TraceStore._lock: the thread holding it, 0 if free
    tpc,        \* thread -> its position in TraceStore.add / TraceStore.list
    tlocal,     \* thread -> its locals (event, payload, limit, items, result)
    trace_max,  \* the max_size the TraceStore was constructed with
    added,      \* every payload appended so far, in append order
    req,        \* handler -> the locals of ProxyHandler._proxy_request
    stopping,   \* ProxyHTTPServer: initiate_shutdown has been called
    server,     \* run_proxy_server: its position, settings and the listening socket
    store       \* the auth directory and what load_auth_records made of it

poolVars == <<now, states, index, ev, ops, marked401, probed>>
traceVars == <<items, seq, lock, tpc, tlocal, trace_max, added>>
proxyVars == <<req, stopping, server, store>>
vars == <<now, states, index, ev, ops, marked401, probed,
          items, seq, lock, tpc, tlocal, trace_max, added, req, stopping, server, store>>

----------------------------------------------------------------------------
(* Bounds of the model *)

MaxNow == 2000
MaxOps == 4
OneOps == 6
MaxErrors == 9
LadderMaxNow == 30
MaxAdds == 3
MaxTraceMax == 2
MaxLimit == 3
ProxyMaxNow == 8

(* Program constants, auth/rotation.py *)

DEFAULT_COOLDOWN_SECONDS == 30
DEFAULT_TRANSIENT_COOLDOWN_SECONDS == 8
DEFAULT_BLACKLIST_SECONDS == 900
MAX_COOLDOWN_SECONDS == 900
MAX_BLACKLIST_SECONDS == 21600
PROBATION_PROBE_INTERVAL_SECONDS == 20
PROBATION_SUCCESS_TARGET == 2

Names == {"a", "b"}
AllNames == Names \cup {"c"}
Tokens == {"tok1", "tok2"}
NoName == "-"
NoReason == "none"
NoCode == "nocode"
NoSeconds == -1

Max(x, y) == IF x >= y THEN x ELSE y
Min(x, y) == IF x <= y THEN x ELSE y

RECURSIVE Pow2(_)
Pow2(n) == IF n <= 0 THEN 1 ELSE 2 * Pow2(n - 1)

----------------------------------------------------------------------------
(* auth/models.py *)

AuthRecord(name, token) == [name |-> name, token |-> token]

AuthState(record) ==
    [name |-> record.name, token |-> record.token,
     cooldown_until |-> 0, blacklist_until |-> 0, blacklist_reason |-> NoReason,
     probation_successes |-> 2, probation_target |-> 2, next_probe_after |-> 0,
     used |-> 0, errors |-> 0, rate_limit_strikes |-> 0, hard_failures |-> 0]

InProbation(s) == s.probation_successes < s.probation_target

(* available with the cooldown test left out *)
available_ignoring_cooldown(s, t) ==
    IF t < s.blacklist_until THEN FALSE
    ELSE IF InProbation(s) /\ t < s.next_probe_after THEN FALSE
    ELSE TRUE

available(s, t) ==
    IF t < s.blacklist_until THEN FALSE
    ELSE IF t < s.cooldown_until THEN FALSE
    ELSE IF InProbation(s) /\ t < s.next_probe_after THEN FALSE
    ELSE TRUE

(* status that reports a probation token waiting for its probe as PROBATION *)
status_waiting_as_probation(s, t) ==
    IF t < s.blacklist_until THEN "BLACKLIST"
    ELSE IF t < s.cooldown_until THEN "COOLDOWN"
    ELSE IF InProbation(s) THEN "PROBATION"
    ELSE "OK"

status(s, t) ==
    IF t < s.blacklist_until THEN "BLACKLIST"
    ELSE IF t < s.cooldown_until THEN "COOLDOWN"
    ELSE IF InProbation(s)
         THEN (IF t < s.next_probe_after THEN "BLACKLIST" ELSE "PROBATION")
         ELSE "OK"

----------------------------------------------------------------------------
(* auth/rotation.py: the transitions of one AuthState *)

(* _mark_success that forgives the hard failures of a token completing probation *)
_mark_success_forgets_hard_failures(s, t) ==
    LET s1 == [s EXCEPT !.cooldown_until = 0, !.rate_limit_strikes = 0] IN
    IF InProbation(s1)
    THEN LET s2 == [s1 EXCEPT !.probation_successes = @ + 1] IN
         IF s2.probation_successes >= s2.probation_target
         THEN [s2 EXCEPT !.blacklist_until = 0, !.blacklist_reason = NoReason,
                         !.next_probe_after = 0, !.hard_failures = 0]
         ELSE s2
    ELSE IF s1.blacklist_until <= t
         THEN [s1 EXCEPT !.blacklist_reason = NoReason]
         ELSE s1

(* _mark_success that completes probation without clearing the blacklist timer *)
_mark_success_keeps_blacklist(s, t) ==
    LET s1 == [s EXCEPT !.cooldown_until = 0, !.rate_limit_strikes = 0] IN
    IF InProbation(s1)
    THEN LET s2 == [s1 EXCEPT !.probation_successes = @ + 1] IN
         IF s2.probation_successes >= s2.probation_target
         THEN [s2 EXCEPT !.blacklist_reason = NoReason, !.next_probe_after = 0]
         ELSE s2
    ELSE IF s1.blacklist_until <= t
         THEN [s1 EXCEPT !.blacklist_reason = NoReason]
         ELSE s1

_mark_success(s, t) ==
    LET s1 == [s EXCEPT !.cooldown_until = 0, !.rate_limit_strikes = 0] IN
    IF InProbation(s1)
    THEN LET s2 == [s1 EXCEPT !.probation_successes = @ + 1] IN
         IF s2.probation_successes >= s2.probation_target
         THEN [s2 EXCEPT !.blacklist_until = 0, !.blacklist_reason = NoReason,
                         !.next_probe_after = 0]
         ELSE s2
    ELSE IF s1.blacklist_until <= t
         THEN [s1 EXCEPT !.blacklist_reason = NoReason]
         ELSE s1

(* the doubling of the 429 cooldown without its 15 min cap *)
_rate_limit_cooldown_uncapped(strikes) ==
    LET power == Min(Max(strikes - 1, 0), 6) IN
    DEFAULT_COOLDOWN_SECONDS * Pow2(power)

_rate_limit_cooldown_seconds(strikes) ==
    LET power == Min(Max(strikes - 1, 0), 6) IN
    Min(MAX_COOLDOWN_SECONDS, DEFAULT_COOLDOWN_SECONDS * Pow2(power))

(* a hard blacklist that leaves the probation progress as it was *)
_mark_blacklist_keeps_probation(s, t, reason) ==
    LET hf == s.hard_failures + 1
        ttl_power == Min(Max(hf - 1, 0), 4)
        ttl == Min(MAX_BLACKLIST_SECONDS, DEFAULT_BLACKLIST_SECONDS * Pow2(ttl_power))
        bl == Max(s.blacklist_until, t + Max(1, ttl))
    IN [s EXCEPT !.errors = @ + 1,
                 !.hard_failures = hf,
                 !.blacklist_until = bl,
                 !.blacklist_reason = reason,
                 !.next_probe_after = bl,
                 !.cooldown_until = Max(s.cooldown_until, bl)]

_mark_blacklist(s, t, reason) ==
    LET hf == s.hard_failures + 1
        ttl_power == Min(Max(hf - 1, 0), 4)
        ttl == Min(MAX_BLACKLIST_SECONDS, DEFAULT_BLACKLIST_SECONDS * Pow2(ttl_power))
        bl == Max(s.blacklist_until, t + Max(1, ttl))
    IN [s EXCEPT !.errors = @ + 1,
                 !.hard_failures = hf,
                 !.blacklist_until = bl,
                 !.blacklist_reason = reason,
                 !.probation_target = PROBATION_SUCCESS_TARGET,
                 !.probation_successes = 0,
                 !.next_probe_after = bl,
                 !.cooldown_until = Max(s.cooldown_until, bl)]

(* a rate-limit transition that never ejects the token *)
_mark_rate_limited_never_blacklists(s, t, seconds_override) ==
    LET strikes == s.rate_limit_strikes + 1
        cooldown == IF seconds_override # NoSeconds THEN seconds_override
                    ELSE _rate_limit_cooldown_seconds(strikes)
    IN [s EXCEPT !.errors = @ + 1,
                 !.rate_limit_strikes = strikes,
                 !.cooldown_until = Max(s.cooldown_until, t + Max(1, cooldown))]

_mark_rate_limited(s, t, seconds_override) ==
    LET strikes == s.rate_limit_strikes + 1
        cooldown == IF seconds_override # NoSeconds THEN seconds_override
                    ELSE _rate_limit_cooldown_seconds(strikes)
        s1 == [s EXCEPT !.errors = @ + 1,
                        !.rate_limit_strikes = strikes,
                        !.cooldown_until = Max(s.cooldown_until, t + Max(1, cooldown))]
    IN IF s1.rate_limit_strikes >= 5
       THEN _mark_blacklist(s1, t, "rate_limited_persistent")
       ELSE s1

(* a transient failure that also counts as a rate-limit strike *)
_mark_transient_failure_counts_strike(s, t) ==
    [s EXCEPT !.errors = @ + 1,
              !.rate_limit_strikes = @ + 1,
              !.cooldown_until = Max(s.cooldown_until, t + DEFAULT_TRANSIENT_COOLDOWN_SECONDS)]

(* a transient failure that overwrites the cooldown deadline *)
_mark_transient_failure_overwrites(s, t) ==
    [s EXCEPT !.errors = @ + 1,
              !.cooldown_until = t + DEFAULT_TRANSIENT_COOLDOWN_SECONDS]

_mark_transient_failure(s, t) ==
    [s EXCEPT !.errors = @ + 1,
              !.cooldown_until = Max(s.cooldown_until, t + DEFAULT_TRANSIENT_COOLDOWN_SECONDS)]

(* mark_result's classification of one status, applied to the state found *)
mark_result_state(s, t, st, error_code, cooldown_seconds) ==
    IF 200 <= st /\ st < 400 THEN _mark_success(s, t)
    ELSE IF st \in {401, 403}
    THEN _mark_blacklist(s, t,
            IF error_code # NoCode /\ error_code # ""
            THEN error_code
            ELSE (IF st = 401 THEN "token_invalid" ELSE "forbidden"))
    ELSE IF st = 429
    THEN _mark_rate_limited(s, t,
            IF cooldown_seconds # NoSeconds THEN Max(1, cooldown_seconds) ELSE NoSeconds)
    ELSE _mark_transient_failure(s, t)

----------------------------------------------------------------------------
(* auth/rotation.py: RoundRobinAuthPool *)

NameOrder == <<"a", "b">>

(* The record lists load_auth_records can hand to load for the files        *)
(* `names`: sorted file names, one record per name.                         *)
RecordListsOf(names) ==
    { [i \in 1..Len(ns) |-> AuthRecord(ns[i], tok[ns[i]])] :
        ns \in { SelectSeq(NameOrder, LAMBDA n : n \in S) : S \in SUBSET names },
        tok \in [names -> Tokens] }

RecordLists == RecordListsOf(Names)
RecordListsA == RecordListsOf({"a"})

IndexOfName(sts, name) ==
    LET hits == { i \in 1..Len(sts) : sts[i].name = name } IN
    IF hits = {} THEN 0 ELSE CHOOSE i \in hits : \A j \in hits : i <= j

LastIndexOfName(sts, name) ==
    LET hits == { i \in 1..Len(sts) : sts[i].name = name } IN
    IF hits = {} THEN 0 ELSE CHOOSE i \in hits : \A j \in hits : i >= j

(* load that copies the health of a kept token except its strike count *)
load_state_forgets_strikes(sts, record) ==
    LET p == LastIndexOfName(sts, record.name)
        fresh == AuthState(record) IN
    IF p = 0 THEN fresh
    ELSE LET prev == sts[p] IN
         IF prev.token = record.token
         THEN [prev EXCEPT !.rate_limit_strikes = 0]
         ELSE [fresh EXCEPT !.used = prev.used, !.errors = prev.errors,
                            !.probation_successes = PROBATION_SUCCESS_TARGET,
                            !.probation_target = PROBATION_SUCCESS_TARGET]

(* load that lets a replaced token inherit the penalties of the old one *)
load_state_keeps_penalties(sts, record) ==
    LET p == LastIndexOfName(sts, record.name)
        fresh == AuthState(record) IN
    IF p = 0 THEN fresh
    ELSE [sts[p] EXCEPT !.token = record.token]

load_state(sts, record) ==
    LET p == LastIndexOfName(sts, record.name)
        fresh == AuthState(record) IN
    IF p = 0 THEN fresh
    ELSE LET prev == sts[p] IN
         IF prev.token = record.token
         THEN [fresh EXCEPT !.used = prev.used, !.errors = prev.errors,
                            !.cooldown_until = prev.cooldown_until,
                            !.blacklist_until = prev.blacklist_until,
                            !.blacklist_reason = prev.blacklist_reason,
                            !.probation_successes = prev.probation_successes,
                            !.probation_target = prev.probation_target,
                            !.next_probe_after = prev.next_probe_after,
                            !.rate_limit_strikes = prev.rate_limit_strikes,
                            !.hard_failures = prev.hard_failures]
         ELSE [fresh EXCEPT !.used = prev.used, !.errors = prev.errors,
                            !.probation_successes = PROBATION_SUCCESS_TARGET,
                            !.probation_target = PROBATION_SUCCESS_TARGET]

load_states(sts, records) == [i \in 1..Len(records) |-> load_state(sts, records[i])]

load_index(idx, n) == IF n > 0 THEN idx % n ELSE 0

(* The token of `name` survives a load: same name, same token value *)
Kept(sts, records, name) ==
    /\ IndexOfName(sts, name) # 0
    /\ \E i \in 1..Len(records) :
          records[i].name = name /\ records[i].token = sts[LastIndexOfName(sts, name)].token

(* The name whose token a load replaces (the first in pool order), NoName  *)
(* when every previously known name keeps its token or disappears.         *)
Replaced(sts, records) ==
    LET hits == { i \in 1..Len(records) :
                    /\ IndexOfName(sts, records[i].name) # 0
                    /\ sts[LastIndexOfName(sts, records[i].name)].token # records[i].token } IN
    IF hits = {} THEN NoName
    ELSE records[CHOOSE i \in hits : \A j \in hits : i <= j].name

(* pick: the positions of the available states, in pool order *)
RECURSIVE AvailableFrom(_, _, _)
AvailableFrom(sts, t, i) ==
    IF i > Len(sts) THEN <<>>
    ELSE (IF available(sts[i], t) THEN <<i>> ELSE <<>>) \o AvailableFrom(sts, t, i + 1)

AvailableIdx(sts, t) == AvailableFrom(sts, t, 1)

(* the position pick chooses, 0 when it returns None *)
pick_choice(sts, idx, t) ==
    LET av == AvailableIdx(sts, t) IN
    IF Len(av) = 0 THEN 0 ELSE av[(idx % Len(av)) + 1]

(* pick that leaves the rotation index where it was *)
pick_index_stuck(sts, idx, t) == idx

pick_index(sts, idx, t) ==
    LET av == AvailableIdx(sts, t) IN
    IF Len(av) = 0 THEN idx ELSE (idx + 1) % Len(av)

(* pick that does not space the probes of a token in probation *)
pick_state_without_probe_interval(s, t) == [s EXCEPT !.used = @ + 1]

pick_state(s, t) ==
    LET s1 == [s EXCEPT !.used = @ + 1] IN
    IF InProbation(s1)
    THEN [s1 EXCEPT !.next_probe_after = t + PROBATION_PROBE_INTERVAL_SECONDS]
    ELSE s1

Event(op, name, st) == [op |-> op, name |-> name, status |-> st]

(* The effect of pool.load(records) on the pool variables; ev'.name is a   *)
(* name whose token the load replaced, NoName when there is none           *)
PoolLoad(records) ==
    /\ states' = load_states(states, records)
    /\ index' = load_index(index, Len(records))
    /\ marked401' = [n \in AllNames |-> IF Kept(states, records, n) THEN marked401[n] ELSE -1]
    /\ probed' = [n \in AllNames |-> IF Kept(states, records, n) THEN probed[n] ELSE -1]
    /\ ev' = Event("load", Replaced(states, records), 0)
    /\ ops' = ops + 1
    /\ UNCHANGED now

(* The effect of pool.pick(); ev'.name is the state returned, NoName for None *)
PoolPick ==
    LET c == pick_choice(states, index, now) IN
    /\ ops' = IF c = 0 THEN ops ELSE ops + 1
    /\ index' = pick_index(states, index, now)
    /\ states' = IF c = 0 THEN states ELSE [states EXCEPT ![c] = pick_state(@, now)]
    /\ probed' = IF c # 0 /\ InProbation(states[c])
                 THEN [probed EXCEPT ![states[c].name] = now] ELSE probed
    /\ ev' = Event("pick", IF c = 0 THEN NoName ELSE states[c].name, 0)
    /\ UNCHANGED <<now, marked401>>

IsSuccess(st) == 200 <= st /\ st < 400

(* mark_result that falls back on the first state when the name is unknown *)
PoolMarkResult_any_name(name, st, error_code, cooldown_seconds) ==
    LET q == IndexOfName(states, name)
        p == IF q = 0 /\ Len(states) > 0 THEN 1 ELSE q IN
    /\ ops' = IF p # 0 /\ ~ IsSuccess(st) THEN ops + 1 ELSE ops
    /\ states' = IF p = 0 THEN states
                 ELSE [states EXCEPT ![p] =
                          mark_result_state(@, now, st, error_code, cooldown_seconds)]
    /\ marked401' = IF q # 0 /\ st = 401 THEN [marked401 EXCEPT ![name] = now]
                    ELSE marked401
    /\ ev' = Event("mark_result", name, st)
    /\ UNCHANGED <<now, index, probed>>

(* The effect of pool.mark_result(name, status=st, error_code, cooldown_seconds) *)
PoolMarkResult(name, st, error_code, cooldown_seconds) ==
    LET p == IndexOfName(states, name) IN
    /\ ops' = IF p # 0 /\ ~ IsSuccess(st) THEN ops + 1 ELSE ops
    /\ states' = IF p = 0 THEN states
                 ELSE [states EXCEPT ![p] =
                          mark_result_state(@, now, st, error_code, cooldown_seconds)]
    /\ marked401' = IF p # 0 /\ st = 401 THEN [marked401 EXCEPT ![name] = now]
                    ELSE marked401
    /\ ev' = Event("mark_result", name, st)
    /\ UNCHANGED <<now, index, probed>>

(* The effect of the legacy pool.mark_cooldown(name, seconds) *)
PoolMarkCooldown(name, seconds) ==
    LET p == IndexOfName(states, name) IN
    /\ ops' = IF p # 0 THEN ops + 1 ELSE ops
    /\ states' = IF p = 0 THEN states
                 ELSE [states EXCEPT ![p] = mark_result_state(@, now, 429, NoCode, seconds)]
    /\ ev' = Event("mark_cooldown", name, 429)
    /\ UNCHANGED <<now, index, marked401, probed>>

(* time.time() advances; the model moves it to one second before, or       *)
(* exactly to, a pending deadline of some token                            *)
(* RoundRobinAuthPool.health_snapshot: the status label of each state, in  *)
(* pool order                                                              *)
health_snapshot(sts, t) == [i \in 1..Len(sts) |-> [file |-> sts[i].name, status |-> status(sts[i], t)]]

(* RoundRobinAuthPool.stats *)
stats(sts, t) ==
    LET tally(labels) == Cardinality({ i \in 1..Len(sts) : status(sts[i], t) \in labels }) IN
    [ok |-> tally({"OK"}), cooldown |-> tally({"COOLDOWN"}), probation |-> tally({"PROBATION"}),
     blacklist |-> Len(sts) - tally({"OK", "COOLDOWN", "PROBATION"}),
     total |-> Len(sts)]

Deadlines ==
    UNION { {states[i].cooldown_until, states[i].blacklist_until,
             states[i].next_probe_after} : i \in 1..Len(states) }

TickTargets == { t \in UNION { {d - 1, d} : d \in Deadlines } : now < t /\ t <= MaxNow }

ClockTick ==
    /\ \E t \in TickTargets : now' = t
    /\ ev' = Event("tick", NoName, 0)
    /\ ops' = ops + 1
    /\ UNCHANGED <<states, index, marked401, probed>>

(* Whether the next pick / result is within the budget of n counted operations *)
PickWithin(n) == pick_choice(states, index, now) # 0 => ops < n
FailWithin(name, st, n) ==
    (IndexOfName(states, name) # 0 /\ ~ IsSuccess(st)) => ops < n

----------------------------------------------------------------------------
(* observability/trace_store.py: TraceStore *)

(* __init__: self._max_size = max(1, int(max_size)) *)
_max_size(m) == Max(1, m)

(* an append that refuses the new item when the buffer is full *)
deque_append_keeps_oldest(q, x, maxlen) ==
    IF Len(q) >= maxlen THEN q ELSE Append(q, x)

(* deque(maxlen=n).append(x) *)
deque_append(q, x, maxlen) ==
    IF maxlen = 0 THEN q
    ELSE IF Len(q) >= maxlen THEN Append(Tail(q), x)
    ELSE Append(q, x)

(* payload = dict(event); payload["id"] = self._seq *)
stamp(event, id) == [src |-> event, id |-> id]

(* seq[-n:] of Python, for any integer n # 0 *)
py_tail(q, n) ==
    LET start == IF n > 0 THEN Max(Len(q) - n, 0) ELSE Min(0 - n, Len(q)) IN
    SubSeq(q, start + 1, Len(q))

list_result(q, limit) == IF limit > 0 THEN py_tail(q, limit) ELSE q

(* a lock that never excludes anyone *)
lock_never_held == TRUE

(* `with self._lock:` can be entered *)
lock_free == lock = 0

(* the threads of the ThreadingHTTPServer that touch the store *)
Threads == {1, 2}
TraceMaxArgs == -1..MaxTraceMax
Limits == -1..MaxLimit

NoLocals == [event |-> 0, payload |-> stamp(0, 0), limit |-> 0, items |-> <<>>,
             result |-> <<>>]

(* add(event), one statement at a time *)
AddAcquire(w) ==
    /\ tpc[w] = "idle"
    /\ seq < MaxAdds
    /\ lock_free
    /\ lock' = w
    /\ tpc' = [tpc EXCEPT ![w] = "add_incr"]
    /\ tlocal' = [tlocal EXCEPT ![w] = [NoLocals EXCEPT !.event = w]]
    /\ UNCHANGED <<items, seq, trace_max, added>>

AddIncr(w) ==
    /\ tpc[w] = "add_incr"
    /\ seq' = seq + 1
    /\ tpc' = [tpc EXCEPT ![w] = "add_stamp"]
    /\ UNCHANGED <<items, lock, tlocal, trace_max, added>>

AddStamp(w) ==
    /\ tpc[w] = "add_stamp"
    /\ tlocal' = [tlocal EXCEPT ![w].payload = stamp(tlocal[w].event, seq)]
    /\ tpc' = [tpc EXCEPT ![w] = "add_append"]
    /\ UNCHANGED <<items, seq, lock, trace_max, added>>

AddAppend(w) ==
    /\ tpc[w] = "add_append"
    /\ items' = deque_append(items, tlocal[w].payload, _max_size(trace_max))
    /\ added' = Append(added, tlocal[w].payload)
    /\ tpc' = [tpc EXCEPT ![w] = "add_release"]
    /\ UNCHANGED <<seq, lock, tlocal, trace_max>>

AddRelease(w) ==
    /\ tpc[w] = "add_release"
    /\ lock' = 0
    /\ tpc' = [tpc EXCEPT ![w] = "idle"]
    /\ UNCHANGED <<items, seq, tlocal, trace_max, added>>

(* list(limit), one statement at a time *)
ListAcquire(w, limit) ==
    /\ tpc[w] = "idle"
    /\ lock_free
    /\ lock' = w
    /\ tpc' = [tpc EXCEPT ![w] = "list_copy"]
    /\ tlocal' = [tlocal EXCEPT ![w] = [NoLocals EXCEPT !.limit = limit]]
    /\ UNCHANGED <<items, seq, trace_max, added>>

ListCopy(w) ==
    /\ tpc[w] = "list_copy"
    /\ tlocal' = [tlocal EXCEPT ![w].items = items]
    /\ tpc' = [tpc EXCEPT ![w] = "list_release"]
    /\ UNCHANGED <<items, seq, lock, trace_max, added>>

ListRelease(w) ==
    /\ tpc[w] = "list_release"
    /\ lock' = 0
    /\ tpc' = [tpc EXCEPT ![w] = "list_return"]
    /\ UNCHANGED <<items, seq, tlocal, trace_max, added>>

ListReturn(w) ==
    /\ tpc[w] = "list_return"
    /\ tlocal' = [tlocal EXCEPT ![w].result = list_result(tlocal[w].items, tlocal[w].limit)]
    /\ tpc' = [tpc EXCEPT ![w] = "listed"]
    /\ UNCHANGED <<items, seq, lock, trace_max, added>>

Returned(w) ==
    /\ tpc[w] = "listed"
    /\ tpc' = [tpc EXCEPT ![w] = "idle"]
    /\ tlocal' = [tlocal EXCEPT ![w] = NoLocals]
    /\ UNCHANGED <<items, seq, lock, trace_max, added>>

(* The whole of add(event), as the lock makes it appear to other threads *)
TraceAdd(event) ==
    /\ seq' = seq + 1
    /\ items' = deque_append(items, stamp(event, seq + 1), _max_size(trace_max))
    /\ added' = Append(added, stamp(event, seq + 1))
    /\ UNCHANGED <<lock, tpc, tlocal, trace_max>>

----------------------------------------------------------------------------
(* run_proxy_server: the settings it was started with, the point it has    *)
(* reached, the listening socket and the shutdown flags                    *)

NoError == "-"

(* phase: "start" before the checks, "failed" when a check raised,         *)
(* "serving" inside serve_forever, "stopped" when serve_forever returned,  *)
(* "closed" after server_close, "exited" when the process has ended.       *)
(* bound: the listening socket is open; stop_requested: the flag of _stop; *)
(* shutdown_request: the flag shutdown() sets for the serve_forever loop;  *)
(* signals, shutdowns: SIGTERM/SIGINT delivered, and how many of them      *)
(* called initiate_shutdown                                                *)
Server(phase, host, allow, key, auths, error) ==
    [phase |-> phase, host |-> host, allow_non_loopback |-> allow,
     management_key |-> key, auth_count |-> auths, error |-> error,
     bound |-> phase = "serving", stop_requested |-> FALSE,
     shutdown_request |-> FALSE, signals |-> 0, shutdowns |-> 0]

(* no auth directory is being read *)
NoStore == [pc |-> "off", dir |-> <<>>, raised |-> FALSE, records |-> <<>>]

(* the server of the specifications that begin after start-up *)
Serving == Server("serving", <<"127.0.0.1">>, FALSE, <<109, 107>>, 1, NoError)

----------------------------------------------------------------------------
(* Initial states *)

TraceIdle ==
    /\ items = <<>> /\ seq = 0 /\ lock = 0 /\ added = <<>> /\ trace_max = 1
    /\ tpc = <<>> /\ tlocal = <<>>

PoolInit ==
    /\ now = 0
    /\ states = <<>>
    /\ index = 0
    /\ ev = Event("init", NoName, 0)
    /\ ops = 0
    /\ marked401 = [n \in AllNames |-> -1]
    /\ probed = [n \in AllNames |-> -1]

ProxyIdle == req = <<>> /\ stopping = FALSE /\ server = Serving /\ store = NoStore

InitPool == PoolInit /\ TraceIdle /\ ProxyIdle

----------------------------------------------------------------------------
(* SpecPool: a pool of up to two tokens, driven by any sequence of load /  *)
(* pick / mark_result calls and clock advances                             *)

Statuses == {200, 401, 429, 500}

Load ==
    \E records \in RecordLists :
        ops < MaxOps /\ PoolLoad(records) /\ UNCHANGED <<traceVars, proxyVars>>

Pick == PickWithin(MaxOps) /\ PoolPick /\ UNCHANGED <<traceVars, proxyVars>>

MarkResult ==
    \E name \in Names, st \in Statuses :
        /\ FailWithin(name, st, MaxOps)
        /\ PoolMarkResult(name, st, NoCode, NoSeconds)
        /\ UNCHANGED <<traceVars, proxyVars>>

Tick == ops < MaxOps /\ ClockTick /\ UNCHANGED <<traceVars, proxyVars>>

NextPool == Load \/ Pick \/ MarkResult \/ Tick

SpecPool == InitPool /\ [][NextPool]_vars

----------------------------------------------------------------------------
(* SpecOne: a pool holding the single token file "a", followed through     *)
(* blacklist, probation and recovery                                       *)

OneStatuses == {200, 401, 403, 429, 500}
OneCodes == {NoCode, "token_expired"}

LoadOne ==
    \E records \in RecordListsA :
        ops < OneOps /\ PoolLoad(records) /\ UNCHANGED <<traceVars, proxyVars>>

PickOne == PickWithin(OneOps) /\ PoolPick /\ UNCHANGED <<traceVars, proxyVars>>

MarkResultOne ==
    \E st \in OneStatuses, code \in OneCodes :
        /\ (st \notin {401, 403, 429} => code = NoCode)
        /\ FailWithin("a", st, OneOps)
        /\ PoolMarkResult("a", st, code, NoSeconds)
        /\ UNCHANGED <<traceVars, proxyVars>>

TickOne == ops < OneOps /\ ClockTick /\ UNCHANGED <<traceVars, proxyVars>>

NextOne == LoadOne \/ PickOne \/ MarkResultOne \/ TickOne

SpecOne == InitPool /\ [][NextOne]_vars

----------------------------------------------------------------------------
(* SpecGone: a pool loaded from the files "a" and "b", any of which a      *)
(* reload may remove, while results and legacy cooldowns keep arriving for *)
(* both names                                                              *)

GoneRecordLists == { r \in RecordLists : \A i \in 1..Len(r) : r[i].token = "tok1" }
GoneSeconds == {0, DEFAULT_COOLDOWN_SECONDS}

LoadGone ==
    \E records \in GoneRecordLists :
        ops < MaxOps /\ PoolLoad(records) /\ UNCHANGED <<traceVars, proxyVars>>

PickGone == PickWithin(MaxOps) /\ PoolPick /\ UNCHANGED <<traceVars, proxyVars>>

MarkResultGone ==
    \E name \in Names, st \in Statuses :
        /\ FailWithin(name, st, MaxOps)
        /\ PoolMarkResult(name, st, NoCode, NoSeconds)
        /\ UNCHANGED <<traceVars, proxyVars>>

MarkCooldownGone ==
    \E name \in Names, seconds \in GoneSeconds :
        /\ FailWithin(name, 429, MaxOps)
        /\ PoolMarkCooldown(name, seconds)
        /\ UNCHANGED <<traceVars, proxyVars>>

TickGone == ops < MaxOps /\ ClockTick /\ UNCHANGED <<traceVars, proxyVars>>

NextGone == LoadGone \/ PickGone \/ MarkResultGone \/ MarkCooldownGone \/ TickGone

SpecGone == InitPool /\ [][NextGone]_vars

----------------------------------------------------------------------------
(* SpecLadder: the single token "a", loaded once, taken up the escalation  *)
(* ladders of the pool by repeated failures (429 strikes, 401/403 hard     *)
(* failures, 5xx, legacy mark_cooldown calls), with successes in between   *)
(* and the clock                                                           *)

LadderStatuses == {200, 401, 429, 500}
LadderSeconds == {0, DEFAULT_COOLDOWN_SECONDS}

ErrorsWithin(n) == Len(states) = 1 /\ states[1].errors < n

LoadLadder ==
    /\ states = <<>>
    /\ PoolLoad(<<AuthRecord("a", "tok1")>>)
    /\ UNCHANGED <<traceVars, proxyVars>>

MarkResultLadder ==
    \E st \in LadderStatuses :
        /\ IsSuccess(st) \/ ErrorsWithin(MaxErrors)
        /\ PoolMarkResult("a", st, NoCode, NoSeconds)
        /\ UNCHANGED <<traceVars, proxyVars>>

MarkCooldownLadder ==
    \E seconds \in LadderSeconds :
        /\ ErrorsWithin(MaxErrors)
        /\ PoolMarkCooldown("a", seconds)
        /\ UNCHANGED <<traceVars, proxyVars>>

TickLadder == ClockTick /\ now' <= LadderMaxNow /\ UNCHANGED <<traceVars, proxyVars>>

NextLadder == LoadLadder \/ MarkResultLadder \/ MarkCooldownLadder \/ TickLadder

SpecLadder == InitPool /\ [][NextLadder]_vars

----------------------------------------------------------------------------
(* SpecResults: the tokens "a" and "b", loaded once, given results of      *)
(* every class of status while the clock moves                             *)

(* failures followed, and the furthest the clock is followed *)
MaxResults == 2
ResultsMaxNow == 40

ResultStatuses == {200, 401, 429, 400, 404, 408, 409, 413, 425, 500}

LoadResults ==
    /\ states = <<>>
    /\ PoolLoad(<<AuthRecord("a", "tok1"), AuthRecord("b", "tok2")>>)
    /\ UNCHANGED <<traceVars, proxyVars>>

MarkResultResults ==
    \E name \in Names, st \in ResultStatuses :
        /\ states # <<>>
        /\ \A i \in 1..Len(states) : states[i].errors < MaxResults
        /\ PoolMarkResult(name, st, NoCode, NoSeconds)
        /\ UNCHANGED <<traceVars, proxyVars>>

TickResults == ClockTick /\ now' <= ResultsMaxNow /\ UNCHANGED <<traceVars, proxyVars>>

NextResults == LoadResults \/ MarkResultResults \/ TickResults

SpecResults == InitPool /\ [][NextResults]_vars

----------------------------------------------------------------------------
(* SpecTrace: a TraceStore constructed with any max_size, used by          *)
(* concurrent threads calling add and list                                 *)

InitTrace ==
    /\ PoolInit /\ ProxyIdle
    /\ trace_max \in TraceMaxArgs
    /\ items = <<>> /\ seq = 0 /\ lock = 0 /\ added = <<>>
    /\ tpc = [w \in Threads |-> "idle"]
    /\ tlocal = [w \in Threads |-> NoLocals]

Add == \E w \in Threads :
    (AddAcquire(w) \/ AddIncr(w) \/ AddStamp(w) \/ AddAppend(w) \/ AddRelease(w))
    /\ UNCHANGED <<poolVars, proxyVars>>

List == \E w \in Threads :
    ((\E limit \in Limits : ListAcquire(w, limit))
        \/ ListCopy(w) \/ ListRelease(w) \/ ListReturn(w) \/ Returned(w))
    /\ UNCHANGED <<poolVars, proxyVars>>

NextTrace == Add \/ List

SpecTrace == InitTrace /\ [][NextTrace]_vars

----------------------------------------------------------------------------
(* proxy/server.py: ProxyHandler._proxy_request                            *)

(* ThreadingHTTPServer runs one thread per client request *)
Handlers == {1, 2}

NoAuth == [name |-> NoName, token |-> NoName]
NoResp == [status |-> 0, headers |-> 0, body |-> 0, streamed |-> FALSE]
NoOutcome == [kind |-> "none", status |-> 0, stream |-> FALSE, length |-> 0]

NoRoute == "-"
NoHeader == <<"none">>

(* The locals of a handler.  final_headers and final_body hold the number  *)
(* of the attempt that produced them (0: the local 503 answer built before *)
(* the loop); stream_response holds the number of the attempt whose        *)
(* response object it references (0: None).  sent is the list of           *)
(* credentials put in the Authorization header, one per attempt.  route    *)
(* and provided are the management route of the request and the value of   *)
(* its X-Management-Key header; content_length is its Content-Length      *)
(* header, a sequence of characters, NoHeader when the request has none;   *)
(* upstream is what the upstream exchange of the last attempt came to.     *)
(* host and base_path are the upstream the handler read from the settings, *)
(* incoming_path and rewritten_path the request path before and after      *)
(* rewrite_request_path, client_headers the names of the headers the       *)
(* client sent and base_headers those build_forward_headers kept.          *)
(* message is the header block of the request as received, line by line,   *)
(* and forward_headers the dict base_headers built from it, in insertion   *)
(* order; chatgpt_backend is the local of that name.                       *)
IdleReq ==
    [pc |-> "idle", request_id |-> 0, pool_count |-> 0, max_attempts |-> 0,
     attempt |-> 0, auth |-> NoAuth, final_status |-> 0, final_headers |-> 0,
     final_body |-> 0, stream_response |-> 0, error_code |-> NoCode,
     sent |-> <<>>, resp |-> NoResp, route |-> NoRoute, provided |-> <<>>,
     content_length |-> NoHeader, upstream |-> NoOutcome,
     host |-> "", base_path |-> <<>>, incoming_path |-> <<>>, rewritten_path |-> <<>>,
     chatgpt_responses_mode |-> FALSE, client_headers |-> {}, base_headers |-> {},
     chatgpt_backend |-> FALSE, message |-> <<>>, forward_headers |-> <<>>]

DEFAULT_MAX_RESPONSE_BODY == 10485760

(* what the upstream exchange of one attempt can come to: an answer whose  *)
(* body has exactly the largest accepted size or one byte more, or an      *)
(* exception                                                               *)
UpstreamStatuses == {200, 401, 429}
Outcomes ==
    [kind : {"response"}, status : UpstreamStatuses, stream : BOOLEAN,
     length : {DEFAULT_MAX_RESPONSE_BODY}]
        \cup {[kind |-> "response", status |-> 200, stream |-> FALSE,
               length |-> DEFAULT_MAX_RESPONSE_BODY + 1],
              [kind |-> "exception", status |-> 0, stream |-> FALSE, length |-> 0]}

(* response.read(amt) on a body of `length` bytes: the number of bytes read *)
response_read(length, amt) == Min(length, amt)

(* a retry on any failure status *)
retryable_any_failure(st) == st >= 400

(* if final_status in {401, 403, 429} *)
retryable(st) == st \in {401, 403, 429}

(* an attempt number that is not stepped between attempts *)
attempt_number_constant(attempt) == 1

(* attempt=attempt + 1 *)
attempt_number(attempt) == attempt + 1

(* uuid.uuid4().hex[:12]: an id no other request of the run has *)
uuid4(h) == h

(* RoundRobinAuthPool.count *)
count(sts) == Len(sts)

(* send_response(final_status), the headers, then the stream or final_body *)
response_of(r) ==
    [status |-> r.final_status, headers |-> r.final_headers,
     body |-> IF r.stream_response # 0 THEN r.stream_response ELSE r.final_body,
     streamed |-> r.stream_response # 0]

(* the code after the loop: the handler answers and its thread ends *)
respond(r) == [r EXCEPT !.resp = response_of(r), !.pc = "done"]

(* the try / except around the upstream exchange *)
after_exchange(r, o) ==
    LET k == attempt_number(r.attempt) IN
    IF o.kind = "exception"
    THEN [r EXCEPT !.final_status = 502, !.final_headers = k, !.final_body = k,
                   !.error_code = "upstream_request_failed"]
    ELSE IF o.stream
    THEN [r EXCEPT !.final_status = o.status, !.final_headers = k,
                   !.stream_response = k, !.final_body = k]
    ELSE IF response_read(o.length, DEFAULT_MAX_RESPONSE_BODY + 1) > DEFAULT_MAX_RESPONSE_BODY
    THEN [r EXCEPT !.final_status = 413, !.final_headers = k, !.final_body = k]
    ELSE [r EXCEPT !.final_status = o.status, !.final_headers = k, !.final_body = k]

(* the loop control after the finally block *)
after_mark(r) ==
    IF retryable(r.final_status)
    THEN LET r1 == [r EXCEPT !.attempt = @ + 1] IN
         IF r1.attempt < r1.max_attempts THEN [r1 EXCEPT !.pc = "loop"] ELSE respond(r1)
    ELSE respond(r)

(* max_attempts, request_id and the initial final_* values *)
Begin(h) ==
    /\ req[h].pc = "idle"
    /\ req' = [req EXCEPT ![h] =
                  [IdleReq EXCEPT !.pc = "loop",
                                  !.request_id = uuid4(h),
                                  !.pool_count = count(states),
                                  !.max_attempts = Max(1, count(states)),
                                  !.final_status = 503]]
    /\ UNCHANGED <<poolVars, traceVars, stopping, server, store>>

(* while attempt < max_attempts: auth_state = pool.pick(); break on None;  *)
(* otherwise the upstream exchange with that token, up to the finally      *)
Attempt(h) ==
    LET c == pick_choice(states, index, now) IN
    /\ req[h].pc = "loop"
    /\ req[h].attempt < req[h].max_attempts
    /\ PoolPick
    /\ IF c = 0 THEN req' = [req EXCEPT ![h] = respond(@)]
       ELSE \E o \in Outcomes :
              LET a == [name |-> states[c].name, token |-> states[c].token] IN
              req' = [req EXCEPT ![h] =
                         after_exchange([@ EXCEPT !.pc = "record", !.auth = a,
                                                  !.error_code = NoCode,
                                                  !.upstream = o,
                                                  !.sent = Append(@, a)], o)]
    /\ UNCHANGED <<traceVars, stopping, server, store>>

(* the payload record_attempt hands to trace_store.add *)
attempt_payload(r) ==
    [request_id |-> r.request_id, attempt |-> attempt_number(r.attempt),
     auth_file |-> r.auth.name, status |-> r.final_status]

(* finally: runtime.record_attempt(...) *)
RecordAttempt(h) ==
    /\ req[h].pc = "record"
    /\ TraceAdd(attempt_payload(req[h]))
    /\ req' = [req EXCEPT ![h].pc = "mark"]
    /\ UNCHANGED <<poolVars, stopping, server, store>>

(* a finally block that leaves the pool without the result *)
MarkAttempt_unreported(h) ==
    /\ req[h].pc = "mark"
    /\ req' = [req EXCEPT ![h] = after_mark(@)]
    /\ UNCHANGED <<poolVars, traceVars, stopping, server, store>>

(* finally: runtime.auth_pool.mark_result(...), then continue, or break    *)
(* and answer the client                                                   *)
MarkAttempt(h) ==
    /\ req[h].pc = "mark"
    /\ PoolMarkResult(req[h].auth.name, req[h].final_status, req[h].error_code, NoSeconds)
    /\ req' = [req EXCEPT ![h] = after_mark(@)]
    /\ UNCHANGED <<traceVars, stopping, server, store>>

HandlerStep(h) == Attempt(h) \/ RecordAttempt(h) \/ MarkAttempt(h)

(* what load_auth_records finds in the auth directory *)
ProxyRecordLists ==
    { <<>>,
      <<AuthRecord("a", "tok1")>>,
      <<AuthRecord("a", "tok1"), AuthRecord("b", "tok2")>> }

(* run_proxy_server refuses to start without a valid auth file *)
StartRecordLists == { records \in ProxyRecordLists : Len(records) > 0 }

(* ProxyRuntime.reload_auths *)
reload_auths(records) == PoolLoad(records)

(* _handle_management, route health with refresh=1: the whole request *)
Refresh(h) ==
    /\ req[h].pc = "idle"
    /\ \E records \in ProxyRecordLists : reload_auths(records)
    /\ req' = [req EXCEPT ![h].pc = "done"]
    /\ UNCHANGED <<traceVars, stopping, server, store>>

----------------------------------------------------------------------------
(* SpecProxy: the proxy after start-up, with concurrent handler threads    *)
(* forwarding client requests, auth reloads and the clock                  *)

InitProxy ==
    /\ now = 0 /\ index = 0 /\ ops = 0
    /\ \E records \in StartRecordLists : states = load_states(<<>>, records)
    /\ ev = Event("load", NoName, 0)
    /\ marked401 = [n \in AllNames |-> -1]
    /\ probed = [n \in AllNames |-> -1]
    /\ items = <<>> /\ seq = 0 /\ lock = 0 /\ added = <<>>
    /\ trace_max = MaxTraceMax
    /\ tpc = <<>> /\ tlocal = <<>>
    /\ req = [h \in Handlers |-> IdleReq]
    /\ stopping = FALSE
    /\ server = Serving
    /\ store = NoStore

Accept == \E h \in Handlers : Begin(h)

Forward == \E h \in Handlers : HandlerStep(h)

Reload == \E h \in Handlers : Refresh(h)

ProxyTick ==
    /\ ClockTick
    /\ now' <= ProxyMaxNow
    /\ UNCHANGED <<traceVars, proxyVars>>

NextProxy == Accept \/ Forward \/ Reload \/ ProxyTick

SpecProxy == InitProxy /\ [][NextProxy]_vars

(* the handler threads are scheduled: a handler that can step does step *)
SpecProxyFair == SpecProxy /\ \A h \in Handlers : WF_vars(HandlerStep(h))

----------------------------------------------------------------------------
(* SpecSwap: the proxy serving from the single auth file "a" while the     *)
(* file is rewritten with another token and reloaded by a management       *)
(* request, concurrently with a forwarded request                          *)

SwapRecordLists == { <<AuthRecord("a", "tok1")>>, <<AuthRecord("a", "tok2")>> }

(* _handle_management, route health with refresh=1, after the auth file    *)
(* changed on disk                                                         *)
RefreshSwap(h) ==
    /\ req[h].pc = "idle"
    /\ \E records \in SwapRecordLists : reload_auths(records)
    /\ req' = [req EXCEPT ![h].pc = "done"]
    /\ UNCHANGED <<traceVars, stopping, server, store>>

InitSwap ==
    /\ now = 0 /\ index = 0 /\ ops = 0
    /\ states = load_states(<<>>, <<AuthRecord("a", "tok1")>>)
    /\ ev = Event("load", NoName, 0)
    /\ marked401 = [n \in AllNames |-> -1]
    /\ probed = [n \in AllNames |-> -1]
    /\ items = <<>> /\ seq = 0 /\ lock = 0 /\ added = <<>>
    /\ trace_max = MaxTraceMax
    /\ tpc = <<>> /\ tlocal = <<>>
    /\ req = [h \in Handlers |-> IdleReq]
    /\ stopping = FALSE
    /\ server = Serving
    /\ store = NoStore

ReloadSwap == \E h \in Handlers : RefreshSwap(h)

NextSwap == Accept \/ Forward \/ ReloadSwap

SpecSwap == InitSwap /\ [][NextSwap]_vars

----------------------------------------------------------------------------
(* SpecMgmt: the management routes, served by the handler threads next to  *)
(* the forwarding of client requests                                       *)

(* management_route(self.path) for the five management paths *)
Routes == {"debug", "trace", "health", "auth-files", "shutdown"}

(* Strings are sequences of code points.  settings.management_key is the   *)
(* stripped, non-empty key run_proxy_server starts with ("mk").            *)
management_key == <<109, 107>>

(* str(self.headers.get("X-Management-Key") or ""): the header absent,     *)
(* the key, another key ("mx"), and a key with the latin-1 letter e-acute  *)
ProvidedKeys == { <<>>, <<109, 107>>, <<109, 120>>, <<233>> }

IsAscii(str) == \A i \in 1..Len(str) : str[i] < 128

(* hmac.compare_digest on two str: TypeError unless both are ASCII *)
compare_digest(a, b) ==
    IF IsAscii(a) /\ IsAscii(b) THEN [raised |-> FALSE, value |-> a = b]
    ELSE [raised |-> TRUE, value |-> FALSE]

_authorize_management(provided) ==
    LET expected == management_key IN
    IF Len(expected) = 0 THEN [raised |-> FALSE, value |-> TRUE]
    ELSE compare_digest(provided, expected)

(* _send_json(status, payload); the payload is named by its first key or   *)
(* its error text                                                          *)
_send_json(st, payload) == [status |-> st, headers |-> 0, body |-> payload, streamed |-> FALSE]

Unauthorized == _send_json(401, "unauthorized management request")

(* _handle_management(route): the answer of each route *)
management_payload(route) ==
    CASE route = "debug" -> "status"
      [] route = "trace" -> "events"
      [] route = "health" -> "ok"
      [] route = "auth-files" -> "files"
      [] route = "shutdown" -> "shutting_down"

(* _handle_management(route): what the route does to the runtime;          *)
(* refresh is the refresh=1 query parameter of /health                     *)
management_effect(route, refresh) ==
    /\ IF route = "health" /\ refresh
       THEN \E records \in ProxyRecordLists : reload_auths(records)
       ELSE UNCHANGED poolVars
    /\ stopping' = (stopping \/ route = "shutdown")
    /\ UNCHANGED <<traceVars, server, store>>

(* _handle_request for a management path: the whole request.  A handler    *)
(* whose authorization check raises ends without an answer.                *)
Manage(h) ==
    \E route \in Routes, provided \in ProvidedKeys, refresh \in BOOLEAN :
        LET a == _authorize_management(provided)
            r == [IdleReq EXCEPT !.route = route, !.provided = provided] IN
        /\ req[h].pc = "idle"
        /\ IF a.raised
           THEN /\ req' = [req EXCEPT ![h] = [r EXCEPT !.pc = "raised"]]
                /\ UNCHANGED <<poolVars, traceVars, stopping, server, store>>
           ELSE IF ~ a.value
           THEN /\ req' = [req EXCEPT ![h] = [r EXCEPT !.pc = "done", !.resp = Unauthorized]]
                /\ UNCHANGED <<poolVars, traceVars, stopping, server, store>>
           ELSE /\ req' = [req EXCEPT ![h] =
                              [r EXCEPT !.pc = "done",
                                        !.resp = _send_json(200, management_payload(route))]]
                /\ management_effect(route, refresh)

Serve == \E h \in Handlers : Manage(h)

NextMgmt == Serve \/ Accept \/ Forward

SpecMgmt == InitProxy /\ [][NextMgmt]_vars

----------------------------------------------------------------------------
(* SpecRetry: client requests forwarded over a pool of three tokens, with  *)
(* no reload and no time passing while they are in flight                  *)

ThreeRecords == <<AuthRecord("a", "tok1"), AuthRecord("b", "tok2"), AuthRecord("c", "tok3")>>

InitRetry ==
    /\ now = 0 /\ index = 0 /\ ops = 0
    /\ states = load_states(<<>>, ThreeRecords)
    /\ ev = Event("load", NoName, 0)
    /\ marked401 = [n \in AllNames |-> -1]
    /\ probed = [n \in AllNames |-> -1]
    /\ items = <<>> /\ seq = 0 /\ lock = 0 /\ added = <<>>
    /\ trace_max = MaxTraceMax
    /\ tpc = <<>> /\ tlocal = <<>>
    /\ req = [h \in Handlers |-> IdleReq]
    /\ stopping = FALSE
    /\ server = Serving
    /\ store = NoStore

NextRetry == Accept \/ Forward

SpecRetry == InitRetry /\ [][NextRetry]_vars

----------------------------------------------------------------------------
(* SpecBody: client requests that announce a body, forwarded over the pool *)

DEFAULT_MAX_REQUEST_BODY == 10485760

Digits == <<"0", "1", "2", "3", "4", "5", "6", "7", "8", "9">>
IsDigit(c) == \E d \in 1..10 : Digits[d] = c
DigitValue(c) == (CHOOSE d \in 1..10 : Digits[d] = c) - 1

(* str.strip() on a sequence of characters *)
RECURSIVE lstrip(_)
lstrip(str) == IF Len(str) > 0 /\ Head(str) = " " THEN lstrip(Tail(str)) ELSE str
RECURSIVE rstrip(_)
rstrip(str) ==
    IF Len(str) > 0 /\ str[Len(str)] = " " THEN rstrip(SubSeq(str, 1, Len(str) - 1)) ELSE str
strip(str) == rstrip(lstrip(str))

(* the value of a run of digits in which single underscores may separate   *)
(* digits                                                                  *)
RECURSIVE digits_value(_, _)
digits_value(str, acc) ==
    IF Len(str) = 0 THEN acc
    ELSE IF Head(str) = "_" THEN digits_value(Tail(str), acc)
    ELSE digits_value(Tail(str), 10 * acc + DigitValue(Head(str)))

digits_ok(str) ==
    /\ Len(str) > 0
    /\ IsDigit(str[1]) /\ IsDigit(str[Len(str)])
    /\ \A i \in 1..Len(str) : IsDigit(str[i]) \/ str[i] = "_"
    /\ \A i \in 1..(Len(str) - 1) : ~ (str[i] = "_" /\ str[i + 1] = "_")

(* int(raw_length): surrounding blanks, an optional sign, then digits;     *)
(* ValueError for anything else                                            *)
py_int(raw) ==
    LET t == strip(raw)
        signed == Len(t) > 0 /\ t[1] \in {"+", "-"}
        body == IF signed THEN Tail(t) ELSE t IN
    IF ~ digits_ok(body) THEN [raised |-> TRUE, value |-> 0]
    ELSE [raised |-> FALSE,
          value |-> IF signed /\ t[1] = "-" THEN 0 - digits_value(body, 0)
                    ELSE digits_value(body, 0)]

(* _read_body that refuses a body of exactly the maximum size *)
_read_body_refuses_max(header) ==
    LET raw_length == IF header = NoHeader THEN <<"0">> ELSE header
        length == py_int(raw_length) IN
    IF length.raised THEN [ok |-> FALSE, status |-> 400, error |-> "invalid content length"]
    ELSE IF length.value < 0 THEN [ok |-> FALSE, status |-> 400, error |-> "invalid content length"]
    ELSE IF length.value >= DEFAULT_MAX_REQUEST_BODY
    THEN [ok |-> FALSE, status |-> 413, error |-> "request body too large"]
    ELSE [ok |-> TRUE, status |-> 0, error |-> "none"]

(* _read_body: ok with the body read, or the answer already sent *)
_read_body(header) ==
    LET raw_length == IF header = NoHeader THEN <<"0">> ELSE header
        length == py_int(raw_length) IN
    IF length.raised THEN [ok |-> FALSE, status |-> 400, error |-> "invalid content length"]
    ELSE IF length.value < 0 THEN [ok |-> FALSE, status |-> 400, error |-> "invalid content length"]
    ELSE IF length.value = 0 THEN [ok |-> TRUE, status |-> 0, error |-> "none"]
    ELSE IF length.value > DEFAULT_MAX_REQUEST_BODY
    THEN [ok |-> FALSE, status |-> 413, error |-> "request body too large"]
    ELSE [ok |-> TRUE, status |-> 0, error |-> "none"]

(* the Content-Length headers of the client requests: none, 0, 7,          *)
(* 10485760, 10485761, -1, a, 1.5 and the empty value                      *)
ContentLengths ==
    { NoHeader, <<"0">>, <<"7">>,
      <<"1", "0", "4", "8", "5", "7", "6", "0">>,
      <<"1", "0", "4", "8", "5", "7", "6", "1">>,
      <<"-", "1">>, <<"a">>, <<"1", ".", "5">>, <<>> }

(* _proxy_request up to the loop, for a request with the given             *)
(* Content-Length header: body = self._read_body(); if body is None: return *)
BeginBody(h) ==
    \E header \in ContentLengths :
        LET body == _read_body(header) IN
        /\ req[h].pc = "idle"
        /\ IF body.ok
           THEN req' = [req EXCEPT ![h] =
                           [IdleReq EXCEPT !.pc = "loop",
                                           !.content_length = header,
                                           !.request_id = uuid4(h),
                                           !.pool_count = count(states),
                                           !.max_attempts = Max(1, count(states)),
                                           !.final_status = 503]]
           ELSE req' = [req EXCEPT ![h] =
                           [IdleReq EXCEPT !.pc = "done",
                                           !.content_length = header,
                                           !.resp = _send_json(body.status, body.error)]]
        /\ UNCHANGED <<poolVars, traceVars, stopping, server, store>>

AcceptBody == \E h \in Handlers : BeginBody(h)

NextBody == AcceptBody \/ Forward

SpecBody == InitProxy /\ [][NextBody]_vars

----------------------------------------------------------------------------
(* proxy/rules.py.  Paths and header names are sequences of text pieces;   *)
(* every prefix the rules test for is a whole number of pieces.            *)

(* str.lower() on a piece *)
Lower(c) ==
    CASE c = "ChatGPT.com" -> "chatgpt.com"
      [] c = "Chat.OpenAI.com" -> "chat.openai.com"
      [] c = "LocalHost" -> "localhost"
      [] c = "Host" -> "host"
      [] c = "Content-Length" -> "content-length"
      [] c = "Connection" -> "connection"
      [] c = "Transfer-Encoding" -> "transfer-encoding"
      [] c = "Accept" -> "accept"
      [] c = "Content-Type" -> "content-type"
      [] c = "Content-Encoding" -> "content-encoding"
      [] c = "User-Agent" -> "user-agent"
      [] c = "X-OpenAI-" -> "x-openai-"
      [] c = "OpenAI-" -> "openai-"
      [] c = "Beta" -> "beta"
      [] c = "Originator" -> "originator"
      [] c = "Authorization" -> "authorization"
      [] c = "AUTHORIZATION" -> "authorization"
      [] c = "ChatGPT-Account-Id" -> "chatgpt-account-id"
      [] c = "Origin" -> "origin"
      [] c = "Referer" -> "referer"
      [] c = "X-Custom" -> "x-custom"
      [] OTHER -> c

lower(str) == [i \in 1..Len(str) |-> Lower(str[i])]

(* "_" in c *)
HasUnderscore(c) == c \in {"session_id", "a_b"}

(* str.startswith(prefix) *)
startswith(str, prefix) ==
    Len(prefix) <= Len(str) /\ SubSeq(str, 1, Len(prefix)) = prefix

(* str.rstrip("/") *)
RECURSIVE rstrip_slash(_)
rstrip_slash(str) ==
    IF Len(str) > 0 /\ str[Len(str)] = "/" THEN rstrip_slash(SubSeq(str, 1, Len(str) - 1))
    ELSE str

(* str.split("?", 1)[0]: the pieces before the query string *)
RECURSIVE before_query(_)
before_query(str) ==
    IF Len(str) = 0 \/ Head(str) \in {"?x=1"} THEN <<>>
    ELSE <<Head(str)>> \o before_query(Tail(str))

CHATGPT_HOSTS == {"chatgpt.com", "chat.openai.com"}

CHATGPT_RESPONSES_DROP_HEADERS ==
    { <<"originator">>, <<"version">>, <<"x-codex-beta-features">>,
      <<"x-oai-web-search-eligible">>, <<"x-codex-turn-metadata">>,
      <<"session_id">>, <<"chatgpt-account-id">> }

PATH_REWRITE_PATTERNS ==
    << <<<<"/v1", "/responses", "/compact">>, <<"/codex", "/responses", "/compact">>>>,
       <<<<"/responses", "/compact">>, <<"/codex", "/responses", "/compact">>>>,
       <<<<"/v1", "/responses">>, <<"/codex", "/responses">>>>,
       <<<<"/responses">>, <<"/codex", "/responses">>>> >>

(* the for loop of rewrite_request_path from pattern i on *)
RECURSIVE rewrite_from(_, _)
rewrite_from(req_path, i) ==
    IF i > Len(PATH_REWRITE_PATTERNS) THEN req_path
    ELSE LET old_prefix == PATH_REWRITE_PATTERNS[i][1]
             new_prefix == PATH_REWRITE_PATTERNS[i][2] IN
         IF startswith(req_path, old_prefix)
         THEN new_prefix \o SubSeq(req_path, Len(old_prefix) + 1, Len(req_path))
         ELSE rewrite_from(req_path, i + 1)

(* rewrite_request_path that rewrites for every upstream *)
rewrite_request_path_any_upstream(req_path, upstream_host, upstream_base_path) ==
    rewrite_from(req_path, 1)

rewrite_request_path(req_path, upstream_host, upstream_base_path) ==
    IF Lower(upstream_host) \notin CHATGPT_HOSTS THEN req_path
    ELSE IF rstrip_slash(upstream_base_path) # <<"/backend-api">> THEN req_path
    ELSE rewrite_from(req_path, 1)

is_primary_responses_path(req_path) == before_query(req_path) = <<"/codex", "/responses">>

(* build_forward_headers that keeps the hop-by-hop headers *)
forwarded_with_hop_headers(key, chatgpt_responses_mode) ==
    LET normalized == lower(key) IN
    IF chatgpt_responses_mode
          /\ (normalized \in CHATGPT_RESPONSES_DROP_HEADERS
                 \/ \E i \in 1..Len(key) : HasUnderscore(key[i]))
    THEN FALSE
    ELSE IF chatgpt_responses_mode
    THEN \/ normalized \in { <<"accept">>, <<"content-type">>, <<"content-encoding">>,
                             <<"user-agent">> }
         \/ startswith(normalized, <<"x-openai-">>)
         \/ startswith(normalized, <<"openai-">>)
    ELSE TRUE

(* the body of the loop of build_forward_headers: whether key is copied *)
forwarded(key, chatgpt_responses_mode) ==
    LET normalized == lower(key) IN
    IF normalized \in { <<"host">>, <<"content-length">>, <<"connection">>,
                        <<"transfer-encoding">> }
    THEN FALSE
    ELSE IF chatgpt_responses_mode
               /\ (normalized \in CHATGPT_RESPONSES_DROP_HEADERS
                      \/ \E i \in 1..Len(key) : HasUnderscore(key[i]))
    THEN FALSE
    ELSE IF chatgpt_responses_mode
    THEN \/ normalized \in { <<"accept">>, <<"content-type">>, <<"content-encoding">>,
                             <<"user-agent">> }
         \/ startswith(normalized, <<"x-openai-">>)
         \/ startswith(normalized, <<"openai-">>)
    ELSE TRUE

build_forward_headers(incoming_headers, chatgpt_responses_mode) ==
    { key \in incoming_headers : forwarded(key, chatgpt_responses_mode) }

----------------------------------------------------------------------------
(* SpecRules: the rule engine applied by a handler thread to a request for *)
(* any of the upstreams, paths and client headers below                    *)

(* urlsplit(settings.upstream): hostname and path *)
Upstreams ==
    { [host |-> "chatgpt.com", path |-> <<"/backend-api">>],
      [host |-> "Chat.OpenAI.com", path |-> <<"/backend-api", "/">>],
      [host |-> "api.openai.com", path |-> <<"/v1">>],
      [host |-> "chatgpt.com", path |-> <<"/api">>] }

RequestPaths ==
    { <<"/responses">>, <<"/v1", "/responses">>,
      <<"/responses", "/compact">>, <<"/v1", "/responses", "/compact">>,
      <<"/responses", "?x=1">>, <<"/codex", "/responses">>,
      <<"/responses", "x">>, <<"/models">> }

HeaderNames ==
    { <<"Host">>, <<"content-length">>, <<"Connection">>, <<"Transfer-Encoding">>,
      <<"Accept">>, <<"Content-Type">>, <<"content-encoding">>, <<"User-Agent">>,
      <<"X-OpenAI-", "Beta">>, <<"openai-", "beta">>, <<"X-OpenAI-", "a_b">>,
      <<"Originator">>, <<"session_id">>, <<"Authorization">>, <<"X-Custom">> }

(* dict(self.headers): one header, or all of them *)
HeaderSets == { {n} : n \in HeaderNames } \cup {HeaderNames}

(* _proxy_request from the upstream settings to build_forward_headers *)
Route(h) ==
    \E u \in Upstreams, path \in RequestPaths, headers \in HeaderSets :
        LET base_path == rstrip_slash(u.path)
            rewritten_path == rewrite_request_path(path, u.host, base_path)
            chatgpt_backend == Lower(u.host) \in CHATGPT_HOSTS
                                   /\ rstrip_slash(base_path) = <<"/backend-api">>
            chatgpt_responses_mode == chatgpt_backend /\ is_primary_responses_path(rewritten_path) IN
        /\ req[h].pc = "idle"
        /\ req' = [req EXCEPT ![h] =
                      [IdleReq EXCEPT !.pc = "routed",
                                      !.host = u.host, !.base_path = base_path,
                                      !.incoming_path = path,
                                      !.rewritten_path = rewritten_path,
                                      !.chatgpt_responses_mode = chatgpt_responses_mode,
                                      !.client_headers = headers,
                                      !.base_headers =
                                          build_forward_headers(headers, chatgpt_responses_mode)]]
        /\ UNCHANGED <<poolVars, traceVars, stopping, server, store>>

(* the rules keep no state between requests: one request at a time *)
RouteOne ==
    /\ \A g \in Handlers : req[g].pc = "idle"
    /\ \E h \in Handlers : Route(h)

NextRules == RouteOne

SpecRules == InitProxy /\ [][NextRules]_vars

----------------------------------------------------------------------------
(* SpecRound: the pool of the three tokens a, b, c at one instant, picked  *)
(* from for ever while results keep arriving for the tokens.  The auth     *)
(* directory is reloaded without a.json and c.json, and with them back,    *)
(* only while the cursor is at 0 and no token is cooling down: such a      *)
(* reload leaves the cursor and the availability of every token as they    *)
(* were and starts the counters used and errors of a and c again.  The     *)
(* calls are not counted in ops.                                           *)

MaxUsed == 2
MaxRoundErrors == 2

RoundStatuses == {200, 500}
RoundRecordLists == { <<AuthRecord("b", "tok2")>>, ThreeRecords }

LoadRound ==
    \E records \in RoundRecordLists :
        /\ index = 0
        /\ \A i \in 1..Len(states) : states[i].cooldown_until = 0
        /\ states' = load_states(states, records)
        /\ index' = load_index(index, Len(records))
        /\ ev' = Event("load", Replaced(states, records), 0)
        /\ UNCHANGED <<now, ops, marked401, probed, traceVars, proxyVars>>

PickRound ==
    LET c == pick_choice(states, index, now) IN
    /\ c # 0 => states[c].used < MaxUsed
    /\ index' = pick_index(states, index, now)
    /\ states' = IF c = 0 THEN states ELSE [states EXCEPT ![c] = pick_state(@, now)]
    /\ ev' = Event("pick", IF c = 0 THEN NoName ELSE states[c].name, 0)
    /\ UNCHANGED <<now, ops, marked401, probed, traceVars, proxyVars>>

MarkResultRound ==
    \E name \in AllNames, st \in RoundStatuses :
        LET p == IndexOfName(states, name) IN
        /\ (p # 0 /\ ~ IsSuccess(st)) => states[p].errors < MaxRoundErrors
        /\ states' = IF p = 0 THEN states
                     ELSE [states EXCEPT ![p] = mark_result_state(@, now, st, NoCode, NoSeconds)]
        /\ ev' = Event("mark_result", name, st)
        /\ UNCHANGED <<now, index, ops, marked401, probed, traceVars, proxyVars>>

NextRound == LoadRound \/ PickRound \/ MarkResultRound

SpecRound == InitRetry /\ [][NextRound]_vars

(* the clients keep sending requests: a pick that can be made is made *)
SpecRoundFair == SpecRound /\ WF_vars(PickRound)

----------------------------------------------------------------------------
(* SpecHeaders: the headers of the upstream attempts, for requests whose   *)
(* header block carries Authorization and chatgpt-account-id lines in      *)
(* several casings.  A dict is the sequence of its items in insertion      *)
(* order, a header value a sequence of text pieces.                        *)

Item(key, value) == [key |-> key, value |-> value]

HasKey(d, key) == \E i \in 1..Len(d) : d[i].key = key

(* d[key] = value *)
dict_set(d, key, value) ==
    IF HasKey(d, key)
    THEN [i \in 1..Len(d) |-> IF d[i].key = key THEN Item(key, value) ELSE d[i]]
    ELSE Append(d, Item(key, value))

(* d.setdefault(key, value) *)
setdefault(d, key, value) == IF HasKey(d, key) THEN d ELSE Append(d, Item(key, value))

(* the positions of d whose key equals key without regard to case *)
MatchesOf(d, key) == { i \in 1..Len(d) : lower(d[i].key) = lower(key) }

(* email.message.Message.__getitem__: the value of the first line whose    *)
(* name matches without regard to case                                     *)
message_get(msg, key) ==
    msg[CHOOSE i \in MatchesOf(msg, key) : \A j \in MatchesOf(msg, key) : i <= j].value

(* dict(self.headers): one item per name as written, each with the value   *)
(* Message.__getitem__ gives for it                                        *)
RECURSIVE dict_from(_, _, _)
dict_from(msg, i, d) ==
    IF i > Len(msg) THEN d
    ELSE dict_from(msg, i + 1, dict_set(d, msg[i].key, message_get(msg, msg[i].key)))

dict_of_message(msg) == dict_from(msg, 1, <<>>)

(* build_forward_headers on the dict *)
build_forward_dict(incoming_headers, chatgpt_responses_mode) ==
    SelectSeq(incoming_headers, LAMBDA e : forwarded(e.key, chatgpt_responses_mode))

(* pops the first key that matches without regard to case, and returns *)
drop_header_case_insensitive(headers, key) ==
    IF MatchesOf(headers, key) = {} THEN headers
    ELSE LET p == CHOOSE i \in MatchesOf(headers, key) : \A j \in MatchesOf(headers, key) : i <= j
         IN SubSeq(headers, 1, p - 1) \o SubSeq(headers, p + 1, Len(headers))

set_header_case_insensitive(headers, key, value) ==
    dict_set(drop_header_case_insensitive(headers, key), key, value)

(* f"Bearer {token}" *)
Bearer(token) == <<"Bearer ", token>>

(* record.account_id of the auth files: a.json names an account, b.json    *)
(* has none                                                                *)
record_account_id(name) == IF name = "a" THEN <<"acct-a">> ELSE <<>>

(* base_headers after the setdefault calls for the chatgpt backend; the    *)
(* requests followed have no body                                          *)
base_headers_of(message, chatgpt_backend, chatgpt_responses_mode) ==
    LET b == build_forward_dict(dict_of_message(message), chatgpt_responses_mode) IN
    IF chatgpt_backend
    THEN setdefault(setdefault(setdefault(b,
             <<"Origin">>, <<"https://chatgpt.com">>),
             <<"Referer">>, <<"https://chatgpt.com/">>),
             <<"User-Agent">>, <<"codex-cli">>)
    ELSE b

(* headers = dict(base_headers) and the two set_header_case_insensitive    *)
(* calls of an attempt made with the token `auth`                          *)
attempt_headers(base_headers, auth, chatgpt_backend) ==
    LET h1 == set_header_case_insensitive(base_headers, <<"Authorization">>, Bearer(auth.token)) IN
    IF chatgpt_backend /\ record_account_id(auth.name) # <<>>
    THEN set_header_case_insensitive(h1, <<"chatgpt-account-id">>, record_account_id(auth.name))
    ELSE h1

(* the headers connection.request sent in attempt k of handler h *)
upstream_headers(h, k) ==
    attempt_headers(req[h].forward_headers, req[h].sent[k], req[h].chatgpt_backend)

HeaderUpstreams ==
    { [host |-> "chatgpt.com", path |-> <<"/backend-api">>],
      [host |-> "api.openai.com", path |-> <<"/v1">>] }

HeaderPaths == { <<"/responses">>, <<"/models">> }

ClientSecret == <<"Bearer ", "client-one">>
ClientOther == <<"Bearer ", "client-two">>

(* header blocks a client can send *)
ClientMessages ==
    { << Item(<<"Authorization">>, ClientSecret) >>,
      << Item(<<"authorization">>, ClientSecret) >>,
      << Item(<<"Authorization">>, ClientSecret), Item(<<"authorization">>, ClientOther) >>,
      << Item(<<"AUTHORIZATION">>, ClientSecret), Item(<<"chatgpt-account-id">>, <<"acct-client">>) >>,
      << Item(<<"Accept">>, <<"*/*">>), Item(<<"ChatGPT-Account-Id">>, <<"acct-client">>) >> }

(* the upstream answers followed: a buffered 200 or 401 *)
HeaderOutcomes ==
    { [kind |-> "response", status |-> st, stream |-> FALSE, length |-> DEFAULT_MAX_RESPONSE_BODY]
        : st \in {200, 401} }

(* _proxy_request up to the loop, for one request at a time *)
BeginHeaders(h) ==
    \E u \in HeaderUpstreams, path \in HeaderPaths, message \in ClientMessages :
        LET base_path == rstrip_slash(u.path)
            rewritten_path == rewrite_request_path(path, u.host, base_path)
            chatgpt_backend == Lower(u.host) \in CHATGPT_HOSTS
                                   /\ rstrip_slash(base_path) = <<"/backend-api">>
            chatgpt_responses_mode == chatgpt_backend /\ is_primary_responses_path(rewritten_path) IN
        /\ \A g \in Handlers : req[g].pc \in {"idle", "done"}
        /\ req[h].pc = "idle"
        /\ req' = [req EXCEPT ![h] =
                      [IdleReq EXCEPT !.pc = "loop",
                                      !.request_id = uuid4(h),
                                      !.pool_count = count(states),
                                      !.max_attempts = Max(1, count(states)),
                                      !.final_status = 503,
                                      !.host = u.host, !.base_path = base_path,
                                      !.incoming_path = path,
                                      !.rewritten_path = rewritten_path,
                                      !.chatgpt_backend = chatgpt_backend,
                                      !.chatgpt_responses_mode = chatgpt_responses_mode,
                                      !.message = message,
                                      !.forward_headers =
                                          base_headers_of(message, chatgpt_backend,
                                                          chatgpt_responses_mode)]]
        /\ UNCHANGED <<poolVars, traceVars, stopping, server, store>>

AcceptHeaders == \E h \in Handlers : BeginHeaders(h)

ForwardHeaders == Forward /\ \A h \in Handlers : req'[h].upstream \in HeaderOutcomes \cup {NoOutcome}

NextHeaders == AcceptHeaders \/ ForwardHeaders

SpecHeaders == InitProxy /\ [][NextHeaders]_vars

----------------------------------------------------------------------------
(* SpecServer: run_proxy_server from its start-up checks to the end of the *)
(* process, with the handler threads, the signals and the shutdown thread  *)

(* SIGTERM/SIGINT deliveries followed *)
MaxSignals == 2

(* ipaddress.ip_address(text): whether the text is an IP address, and      *)
(* whether that address is a loopback address                              *)
ip_address(c) ==
    CASE c \in {"127.0.0.1", "::1"} -> [valid |-> TRUE, is_loopback |-> TRUE]
      [] c \in {"0.0.0.0", "192.168.1.5"} -> [valid |-> TRUE, is_loopback |-> FALSE]
      [] OTHER -> [valid |-> FALSE, is_loopback |-> FALSE]

(* a variant that takes every IP address for a loopback address *)
is_loopback_host_any_ip(host) ==
    LET normalized == lower(strip(host)) IN
    IF normalized = <<>> THEN FALSE
    ELSE IF normalized = <<"localhost">> THEN TRUE
    ELSE Len(normalized) = 1 /\ ip_address(normalized[1]).valid

is_loopback_host(host) ==
    LET normalized == lower(strip(host)) IN
    IF normalized = <<>> THEN FALSE
    ELSE IF normalized = <<"localhost">> THEN TRUE
    ELSE IF Len(normalized) = 1 /\ ip_address(normalized[1]).valid
    THEN ip_address(normalized[1]).is_loopback
    ELSE FALSE

(* str.strip() on a sequence of code points *)
RECURSIVE lstrip_points(_)
lstrip_points(str) ==
    IF Len(str) > 0 /\ Head(str) \in {9, 10, 32} THEN lstrip_points(Tail(str)) ELSE str
RECURSIVE rstrip_points(_)
rstrip_points(str) ==
    IF Len(str) > 0 /\ str[Len(str)] \in {9, 10, 32}
    THEN rstrip_points(SubSeq(str, 1, Len(str) - 1)) ELSE str
strip_points(str) == rstrip_points(lstrip_points(str))

(* settings.host: a host is one piece, with a blank piece for a space *)
SettingsHosts == { <<"127.0.0.1">>, <<"LocalHost">>, <<"0.0.0.0">>, <<"example.com">> }

(* settings.management_key: absent, " ", "mk" and " mk" *)
SettingsKeys == { <<>>, <<32>>, <<109, 107>>, <<32, 109, 107>> }

(* the upstream answers of this specification: a small 200, or the         *)
(* exchange raises                                                         *)
ServerOutcomes ==
    { NoOutcome,
      [kind |-> "response", status |-> 200, stream |-> FALSE,
       length |-> DEFAULT_MAX_RESPONSE_BODY],
      [kind |-> "exception", status |-> 0, stream |-> FALSE, length |-> 0] }

InitServer ==
    /\ PoolInit /\ TraceIdle
    /\ req = [h \in Handlers |-> IdleReq]
    /\ stopping = FALSE
    /\ \E host \in SettingsHosts, allow \in BOOLEAN, key \in SettingsKeys :
          server = Server("start", host, allow, key, 0, NoError)
    /\ store = NoStore

(* run_proxy_server up to the construction of ProxyHTTPServer, which binds *)
(* the listening socket                                                    *)
Start ==
    /\ server.phase = "start"
    /\ IF ~ is_loopback_host(server.host) /\ ~ server.allow_non_loopback
       THEN /\ server' = [server EXCEPT !.phase = "failed",
                                        !.error = "non-loopback bind blocked"]
            /\ UNCHANGED poolVars
       ELSE IF strip_points(server.management_key) = <<>>
       THEN /\ server' = [server EXCEPT !.phase = "failed",
                                        !.error = "management key required"]
            /\ UNCHANGED poolVars
       ELSE \E records \in ProxyRecordLists :
              /\ reload_auths(records)
              /\ server' =
                   IF Len(records) <= 0
                   THEN [server EXCEPT !.phase = "failed",
                                       !.management_key = strip_points(@),
                                       !.error = "no valid auth files found"]
                   ELSE [server EXCEPT !.phase = "serving", !.bound = TRUE,
                                       !.management_key = strip_points(@),
                                       !.auth_count = Len(records)]
    /\ UNCHANGED <<traceVars, req, stopping, store>>

(* serve_forever accepts a connection and starts its handler thread *)
Accepting == server.phase = "serving" /\ ~ server.shutdown_request

ServerAccept == Accepting /\ Accept

(* /shutdown requests, with and without the management key *)
ServerManage ==
    /\ Accepting
    /\ \E h \in Handlers : Manage(h) /\ req'[h].route = "shutdown"

(* the handler threads run for as long as the process lives *)
ServerForward ==
    /\ server.phase # "exited"
    /\ Forward
    /\ \A h \in Handlers : req'[h].upstream \in ServerOutcomes

(* _stop(signum, frame), installed from the start of serve_forever until   *)
(* the previous handlers are put back                                      *)
Signal ==
    /\ server.phase \in {"serving", "stopped"}
    /\ server.signals < MaxSignals
    /\ IF server.stop_requested
       THEN /\ server' = [server EXCEPT !.signals = @ + 1]
            /\ UNCHANGED stopping
       ELSE /\ server' = [server EXCEPT !.signals = @ + 1, !.stop_requested = TRUE,
                                        !.shutdowns = @ + 1]
            /\ stopping' = TRUE
    /\ UNCHANGED <<poolVars, traceVars, req, store>>

(* the thread of initiate_shutdown: shutdown() sets the flag of the        *)
(* serve_forever loop.  A thread that comes after the loop has ended sets  *)
(* a flag nothing reads.                                                   *)
ShutdownThread ==
    /\ stopping /\ server.phase = "serving" /\ ~ server.shutdown_request
    /\ server' = [server EXCEPT !.shutdown_request = TRUE]
    /\ UNCHANGED <<poolVars, traceVars, req, stopping, store>>

(* serve_forever sees the flag and returns *)
ServeForeverReturn ==
    /\ server.phase = "serving" /\ server.shutdown_request
    /\ server' = [server EXCEPT !.phase = "stopped", !.shutdown_request = FALSE]
    /\ UNCHANGED <<poolVars, traceVars, req, stopping, store>>

(* finally: server.server_close().  The handler threads of                 *)
(* ThreadingHTTPServer are daemon threads, which server_close does not     *)
(* join.                                                                   *)
ServerClose ==
    /\ server.phase = "stopped"
    /\ server' = [server EXCEPT !.phase = "closed", !.bound = FALSE]
    /\ UNCHANGED <<poolVars, traceVars, req, stopping, store>>

(* a handler thread that has not answered yet *)
InFlight(h) == req[h].pc \in {"loop", "record", "mark"}

(* run_proxy_server returns and the process ends: the interpreter does not *)
(* wait for daemon threads                                                 *)
ProcessExit ==
    /\ server.phase = "closed"
    /\ server' = [server EXCEPT !.phase = "exited"]
    /\ req' = [h \in Handlers |-> IF InFlight(h) THEN [req[h] EXCEPT !.pc = "killed"]
                                  ELSE req[h]]
    /\ UNCHANGED <<poolVars, traceVars, stopping, store>>

NextServer ==
    \/ Start \/ ServerAccept \/ ServerManage \/ ServerForward \/ Signal
    \/ ShutdownThread \/ ServeForeverReturn \/ ServerClose \/ ProcessExit

SpecServer == InitServer /\ [][NextServer]_vars

----------------------------------------------------------------------------
(* SpecStore: load_auth_records on an auth directory.  A text is a         *)
(* sequence of pieces, " " being a blank; Missing is None or an absent key *)

Missing == <<"null">>

(* value or "" *)
or_empty(v) == IF v = Missing THEN <<>> ELSE v

_clean_text(value) ==
    LET text == strip(or_empty(value)) IN
    IF text = <<>> THEN Missing ELSE text

(* the JSON value a dict lookup gives: whether it is a dict, and its email *)
EmptyDict == [dict |-> TRUE, email |-> Missing]

(* json.loads(base64.urlsafe_b64decode(piece)): the payloads {"email":     *)
(* "jwt@x"}, {"email": " "}, {} and [1]; any other piece does not decode   *)
b64_json(piece) ==
    CASE piece = "b64{email:jwt@x}" -> [ok |-> TRUE, dict |-> TRUE, email |-> <<"jwt@x">>]
      [] piece = "b64{email: }" -> [ok |-> TRUE, dict |-> TRUE, email |-> <<" ">>]
      [] piece = "b64{}" -> [ok |-> TRUE, dict |-> TRUE, email |-> Missing]
      [] piece = "b64[1]" -> [ok |-> TRUE, dict |-> FALSE, email |-> Missing]
      [] OTHER -> [ok |-> FALSE, dict |-> FALSE, email |-> Missing]

(* token.split("."): the positions of the dots *)
dots(token) == { i \in 1..Len(token) : token[i] = "." }

(* decode_jwt_payload(token): what json.loads returned, {} on an error.    *)
(* parts[1] is the piece after the first dot.                              *)
decode_jwt_payload(token) ==
    IF token = <<>> THEN EmptyDict
    ELSE IF Cardinality(dots(token)) + 1 < 2 THEN EmptyDict
    ELSE LET first == CHOOSE i \in dots(token) : \A j \in dots(token) : i <= j
             payload_b64 == IF first < Len(token) /\ token[first + 1] # "."
                            THEN token[first + 1] ELSE ""
             payload == b64_json(payload_b64) IN
         IF payload.ok THEN [dict |-> payload.dict, email |-> payload.email]
         ELSE EmptyDict

(* raw.get("tokens") when it is not a dict *)
NoTokens ==
    [dict |-> FALSE, access_token |-> Missing, account_id |-> Missing,
     email |-> Missing, id_token |-> Missing]

TokensDict(access_token, account_id, email, id_token) ==
    [dict |-> TRUE, access_token |-> access_token, account_id |-> account_id,
     email |-> email, id_token |-> id_token]

(* a file whose text is the JSON object {} *)
EmptyObject ==
    [kind |-> "object", email |-> Missing, tokens |-> NoTokens, access_token |-> Missing,
     OPENAI_API_KEY |-> Missing, api_key |-> Missing, openai_api_key |-> Missing,
     token |-> Missing]

(* the first of the values that is neither None nor "": a or b or c *)
RECURSIVE first_truthy(_)
first_truthy(values) ==
    IF Len(values) = 0 THEN Missing
    ELSE IF Len(values) = 1 \/ or_empty(Head(values)) # <<>> THEN Head(values)
    ELSE first_truthy(Tail(values))

(* extract_auth_fields(raw); raised: id_payload.get on a payload that is   *)
(* not a dict raises AttributeError                                        *)
extract_auth_fields(raw) ==
    LET tokens == raw.tokens
        email0 == _clean_text(raw.email)
        token1 == IF tokens.dict THEN or_empty(tokens.access_token) ELSE <<>>
        account_id == IF tokens.dict THEN _clean_text(tokens.account_id) ELSE Missing
        email1 == IF tokens.dict /\ email0 = Missing THEN _clean_text(tokens.email) ELSE email0
        id_token == IF tokens.dict THEN _clean_text(tokens.id_token) ELSE Missing
        id_payload == IF id_token # Missing THEN decode_jwt_payload(id_token) ELSE EmptyDict
        jwt_email == IF id_payload.dict THEN _clean_text(id_payload.email) ELSE Missing
        email == IF jwt_email # Missing THEN jwt_email ELSE email1
        token2 == IF token1 = <<>> THEN or_empty(raw.access_token) ELSE token1
        token3 == IF token2 = <<>> THEN or_empty(raw.OPENAI_API_KEY) ELSE token2
        token4 == IF token3 = <<>>
                  THEN or_empty(first_truthy(<<raw.api_key, raw.openai_api_key, raw.token>>))
                  ELSE token3 IN
    [raised |-> ~ id_payload.dict, token |-> strip(token4), email |-> email,
     account_id |-> account_id]

(* the entries of the auth directory, in the order sorted() gives them *)
EntryNames == <<"a.json", "b.json", "c.txt">>

(* entry.suffix.lower() *)
suffix(name) == IF name = "c.txt" THEN ".txt" ELSE ".json"

Absent == [EmptyObject EXCEPT !.kind = "absent"]

(* iter_auth_json_files(auth_dir): the names of the .json files, sorted *)
iter_auth_json_files(dir) ==
    SelectSeq(EntryNames, LAMBDA n : dir[n] # Absent /\ suffix(n) = ".json")

(* read_auth_json(path): the object, or None (written Absent) with an error *)
read_auth_json(file) ==
    CASE file.kind = "invalid" -> [raw |-> Absent, error |-> "invalid_json"]
      [] file.kind = "array" -> [raw |-> Absent, error |-> "json_not_object"]
      [] OTHER -> [raw |-> file, error |-> "null"]

(* the AuthRecord load_auth_records appends *)
FileRecord(name, fields) ==
    [name |-> name, token |-> fields.token, email |-> fields.email,
     account_id |-> fields.account_id]

(* load_auth_records(auth_dir) over the files from position i on: the      *)
(* records, or raised when extract_auth_fields raised for one of the files *)
RECURSIVE load_from(_, _, _)
load_from(dir, paths, records) ==
    IF Len(paths) = 0 THEN [raised |-> FALSE, records |-> records]
    ELSE LET r == read_auth_json(dir[Head(paths)]) IN
         IF r.error # "null" \/ r.raw = Absent THEN load_from(dir, Tail(paths), records)
         ELSE LET fields == extract_auth_fields(r.raw) IN
              IF fields.raised THEN [raised |-> TRUE, records |-> <<>>]
              ELSE IF fields.token = <<>> THEN load_from(dir, Tail(paths), records)
              ELSE load_from(dir, Tail(paths),
                             Append(records, FileRecord(Head(paths), fields)))

load_auth_records(dir) == load_from(dir, iter_auth_json_files(dir), <<>>)

(* an id_token of three parts with the given payload *)
Jwt(payload_b64) == <<"h", ".", payload_b64, ".", "s">>

(* the files of this specification *)
FileContents ==
    { [EmptyObject EXCEPT !.kind = "invalid"],
      [EmptyObject EXCEPT !.kind = "array"],
      EmptyObject,
      [EmptyObject EXCEPT !.access_token = <<"t1">>, !.email = <<"top@x">>],
      [EmptyObject EXCEPT !.access_token = <<" ", "t1", " ">>, !.OPENAI_API_KEY = <<"t3">>],
      [EmptyObject EXCEPT !.tokens = TokensDict(<<"t2">>, <<"acc">>, <<"nested@x">>, Missing)],
      [EmptyObject EXCEPT !.tokens = TokensDict(<<"t2">>, Missing, <<"nested@x">>,
                                            Jwt("b64{email:jwt@x}")),
                          !.email = <<"top@x">>, !.access_token = <<"t1">>],
      [EmptyObject EXCEPT !.tokens = TokensDict(<<>>, Missing, Missing, Jwt("b64{email:jwt@x}")),
                          !.access_token = <<"t1">>],
      [EmptyObject EXCEPT !.tokens = TokensDict(<<"t2">>, Missing, <<"nested@x">>,
                                            Jwt("b64{email: }"))],
      [EmptyObject EXCEPT !.tokens = TokensDict(<<"t2">>, Missing, Missing, Jwt("b64{}")),
                          !.email = <<"top@x">>],
      [EmptyObject EXCEPT !.tokens = TokensDict(<<"t2">>, Missing, Missing, Jwt("b64[1]"))],
      [EmptyObject EXCEPT !.tokens = TokensDict(<<"t2">>, Missing, Missing, Jwt("%%")),
                          !.email = <<"top@x">>],
      [EmptyObject EXCEPT !.tokens = TokensDict(<<"t2">>, Missing, Missing, <<"nodots">>)],
      [EmptyObject EXCEPT !.tokens = TokensDict(Missing, Missing, Missing, Missing),
                          !.OPENAI_API_KEY = <<"t3">>, !.token = <<"t5">>],
      [EmptyObject EXCEPT !.OPENAI_API_KEY = <<"t3">>, !.api_key = <<"t4">>],
      [EmptyObject EXCEPT !.api_key = <<"t4">>, !.token = <<"t5">>],
      [EmptyObject EXCEPT !.api_key = <<>>, !.openai_api_key = <<"t4">>, !.token = <<"t5">>],
      [EmptyObject EXCEPT !.token = <<"t5">>, !.email = <<" ">>],
      [EmptyObject EXCEPT !.token = <<" ">>] }

AuthDirs ==
    { d \in [{"a.json", "b.json", "c.txt"} -> FileContents \cup {Absent}] :
         d["c.txt"] \in {Absent, [EmptyObject EXCEPT !.access_token = <<"t1">>,
                                                     !.email = <<"top@x">>]} }

InitStore ==
    /\ PoolInit /\ TraceIdle
    /\ req = <<>> /\ stopping = FALSE /\ server = Serving
    /\ \E dir \in AuthDirs : store = [NoStore EXCEPT !.pc = "ready", !.dir = dir]

(* records = load_auth_records(self.settings.auth_dir) *)
LoadRecords ==
    /\ store.pc = "ready"
    /\ LET r == load_auth_records(store.dir) IN
       store' = [store EXCEPT !.pc = "loaded", !.raised = r.raised, !.records = r.records]
    /\ UNCHANGED <<poolVars, traceVars, req, stopping, server>>

NextStore == LoadRecords

SpecStore == InitStore /\ [][NextStore]_vars

----------------------------------------------------------------------------
(* Properties of the rotation pool *)

(* The availability predicate as the data model states it *)
AvailableAt(s, t) ==
    /\ t >= s.blacklist_until
    /\ t >= s.cooldown_until
    /\ (s.probation_successes >= s.probation_target \/ t >= s.next_probe_after)

PickStep == ev'.op = "pick"
PickedPos == IndexOfName(states, ev'.name)

(* C1: pick() returns a token only if that token is available at the time  *)
(* of the pick (not blacklisted, not cooling down, and past its probe time *)
(* when in probation), and it returns None exactly when no token of the    *)
(* pool is available.                                                      *)
C1_PickOnlyAvailable ==
    [][PickStep =>
          /\ ev'.name # NoName =>
                (PickedPos # 0 /\ AvailableAt(states[PickedPos], now))
          /\ ev'.name = NoName <=>
                (\A i \in 1..Len(states) : ~ AvailableAt(states[i], now))]_vars

(* C1 witness: "a" has just been put in cooldown by a 429 and pick() has   *)
(* returned "b"                                                            *)
C1_Witness ==
    /\ ev.op = "pick" /\ ev.name = "b"
    /\ Len(states) = 2
    /\ states[1].name = "a" /\ states[1].rate_limit_strikes = 1
    /\ now < states[1].cooldown_until /\ states[1].blacklist_until = 0

SuccessStep == ev'.op = "mark_result" /\ IsSuccess(ev'.status)
MarkedPos == IndexOfName(states, ev'.name)

(* C5: a success reported for a token in probation with 0 of 2 successes   *)
(* leaves it in probation with 1 of 2; the next success (1 of 2) clears    *)
(* blacklist_until, blacklist_reason and next_probe_after, makes its       *)
(* status label OK and makes it available to pick() at once.               *)
C5_ProbationRecovery ==
    [][(SuccessStep /\ MarkedPos # 0 /\ states[MarkedPos].probation_target = 2) =>
          LET s == states[MarkedPos]
              s2 == states'[MarkedPos] IN
          /\ s.probation_successes = 0 =>
                (s2.probation_successes = 1 /\ InProbation(s2)
                 /\ s2.blacklist_until = s.blacklist_until)
          /\ s.probation_successes = 1 =>
                /\ s2.probation_successes = 2
                /\ s2.blacklist_until = 0
                /\ s2.blacklist_reason = NoReason
                /\ s2.next_probe_after = 0
                /\ status(s2, now') = "OK"
                /\ AvailableAt(s2, now')]_vars

(* C5 witness: "a" was blacklisted by a 401 less than 900 s ago and the    *)
(* success just reported has completed its probation                       *)
C5_Witness ==
    /\ ev.op = "mark_result" /\ ev.name = "a" /\ IsSuccess(ev.status)
    /\ Len(states) = 1
    /\ marked401["a"] >= 0 /\ now < marked401["a"] + DEFAULT_BLACKLIST_SECONDS
    /\ states[1].hard_failures = 1
    /\ states[1].probation_successes = 2
    /\ status(states[1], now) = "OK"

(* C6: a pick of a token that is in probation comes at least               *)
(* PROBATION_PROBE_INTERVAL_SECONDS after the previous pick of that token  *)
(* made while it was in probation.                                         *)
C6_ProbesSpaced ==
    [][(PickStep /\ PickedPos # 0 /\ InProbation(states[PickedPos])
        /\ probed[ev'.name] >= 0) =>
          now >= probed[ev'.name] + PROBATION_PROBE_INTERVAL_SECONDS]_vars

(* C6 witness: the second probe of "a", 20 s after the first one, which    *)
(* came when its blacklist of 900 s ended                                  *)
C6_Witness ==
    /\ ev.op = "pick" /\ ev.name = "a"
    /\ Len(states) = 1 /\ InProbation(states[1])
    /\ states[1].used = 2
    /\ probed["a"] = now
    /\ now = marked401["a"] + DEFAULT_BLACKLIST_SECONDS + PROBATION_PROBE_INTERVAL_SECONDS

----------------------------------------------------------------------------
(* Properties of the health timers *)

Present(sts, n) == IndexOfName(sts, n) # 0
StateOf(sts, n) == sts[IndexOfName(sts, n)]

(* the step is a success reported for n, a success that ends n's probation, *)
(* a load that replaces n's token                                           *)
SuccessOn(n) == ev'.op = "mark_result" /\ ev'.name = n /\ IsSuccess(ev'.status)
CompletesProbation(n) ==
    SuccessOn(n) /\ InProbation(StateOf(states, n)) /\ ~ InProbation(StateOf(states', n))
ReplacesToken(n) ==
    ev'.op = "load" /\ StateOf(states, n).token # StateOf(states', n).token

----------------------------------------------------------------------------
(* Properties of the escalation ladders *)

(* the step applies a failure result that hard-blacklists "a"; a 429       *)
(* result with no cooldown_seconds; a 429 result or a mark_cooldown call   *)
ResultStep == ev'.op \in {"mark_result", "mark_cooldown"} /\ Len(states) = 1
HardFailureStep == ResultStep /\ states'[1].hard_failures = states[1].hard_failures + 1
Plain429Step == ResultStep /\ ev'.op = "mark_result" /\ ev'.status = 429
Any429Step == ResultStep /\ ev'.status = 429

(* the blacklist ttl the claim gives for the n-th hard failure *)
TtlOfHardFailure(n) ==
    CASE n = 1 -> 900 [] n = 2 -> 1800 [] n = 3 -> 3600 [] n = 4 -> 7200
      [] n = 5 -> 14400 [] OTHER -> 21600

(* C12: the n-th hard-blacklist transition of a token extends              *)
(* blacklist_until to at least now + ttl(n), with ttl = 900, 1800, 3600,   *)
(* 7200, 14400, 21600 s for n = 1..6 and 21600 s for every larger n.       *)
C12_BlacklistLadder ==
    [][HardFailureStep =>
          states'[1].blacklist_until =
              Max(states[1].blacklist_until,
                  now + TtlOfHardFailure(states'[1].hard_failures))]_vars

(* the cooldown the claim gives for the n-th consecutive 429 *)
CooldownOfStrike(n) ==
    CASE n = 1 -> 30 [] n = 2 -> 60 [] n = 3 -> 120 [] n = 4 -> 240
      [] n = 5 -> 480 [] OTHER -> 900

StrikeStep ==
    Plain429Step =>
        LET s == states[1]
            s2 == states'[1]
            n == s.rate_limit_strikes + 1 IN
        /\ s2.rate_limit_strikes = n
        /\ _rate_limit_cooldown_seconds(n) = CooldownOfStrike(n)
        /\ s2.cooldown_until >= now + CooldownOfStrike(n)
        /\ s2.cooldown_until >= s.cooldown_until
        /\ n < 5 => s2.cooldown_until = Max(s.cooldown_until, now + CooldownOfStrike(n))

(* C13: with no cooldown_seconds supplied, the 429 that brings             *)
(* rate_limit_strikes to n computes a cooldown of 30, 60, 120, 240, 480,   *)
(* 900, 900 s for n = 1..7 (900 s for larger n); after it cooldown_until   *)
(* is at least now plus that value and not lower than before.              *)
C13_CooldownLadder == [][StrikeStep]_vars

(* C13 witness: the seventh consecutive 429 has been applied to "a"        *)
C13_Witness ==
    /\ ev.op = "mark_result" /\ ev.status = 429
    /\ Len(states) = 1 /\ states[1].rate_limit_strikes = 7
    /\ states[1].cooldown_until >= now + 900

EjectStep ==
    Any429Step =>
        LET s == states[1]
            s2 == states'[1]
            n == s.rate_limit_strikes + 1 IN
        /\ s2.rate_limit_strikes = n
        /\ n >= 5 =>
              /\ s2.blacklist_reason = "rate_limited_persistent"
              /\ s2.hard_failures = s.hard_failures + 1
              /\ s2.blacklist_until > now /\ s2.blacklist_until >= s.blacklist_until
              /\ s2.probation_successes = 0 /\ s2.probation_target = 2
              /\ ~ available(s2, now)
        /\ n <= 4 =>
              /\ s2.blacklist_until = s.blacklist_until
              /\ s2.blacklist_reason = s.blacklist_reason
              /\ s2.hard_failures = s.hard_failures
              /\ s2.probation_successes = s.probation_successes
              /\ s2.probation_target = s.probation_target

(* C14: a 429 result or legacy mark_cooldown call that brings              *)
(* rate_limit_strikes to 5 or more also hard-blacklists the token with     *)
(* reason rate_limited_persistent; at strikes 1..4 it leaves               *)
(* blacklist_until, blacklist_reason, hard_failures and the probation      *)
(* counters as they were.                                                  *)
C14_PersistentRateLimit == [][EjectStep]_vars

(* C14 witness: a legacy mark_cooldown call has brought "a" to its fifth   *)
(* strike and blacklisted it for the first time                            *)
C14_Witness ==
    /\ ev.op = "mark_cooldown"
    /\ Len(states) = 1 /\ states[1].rate_limit_strikes = 5
    /\ states[1].hard_failures = 1
    /\ states[1].blacklist_reason = "rate_limited_persistent"
    /\ states[1].blacklist_until = now + DEFAULT_BLACKLIST_SECONDS

----------------------------------------------------------------------------
(* Properties of load *)

LoadStep == ev'.op = "load"

(* the load names exactly the tokens the pool already holds *)
SameRecords ==
    /\ Len(states') = Len(states)
    /\ \A i \in 1..Len(states) :
          states'[i].name = states[i].name /\ states'[i].token = states[i].token

(* C15: a load whose records carry the names and tokens the pool already   *)
(* holds leaves every health field, used and errors of every token as they *)
(* were, and the rotation index too, so the next pick returns what it      *)
(* would have returned without the load.                                   *)
C15_ReloadSameTokens ==
    [][LoadStep /\ SameRecords =>
          /\ states' = states
          /\ index' = index
          /\ pick_choice(states', index', now') = pick_choice(states, index, now)]_vars

(* C15 witness: a load has kept two tokens, one with a rate-limit strike   *)
(* and one hard-blacklisted                                                *)
C15_Witness ==
    /\ ev.op = "load" /\ ev.name = NoName
    /\ Len(states) = 2
    /\ states[1].rate_limit_strikes = 1 /\ states[1].cooldown_until > now
    /\ states[2].hard_failures = 1 /\ states[2].blacklist_until > now

FreshAfterReplace(s, s2) ==
    /\ s2.cooldown_until = 0 /\ s2.blacklist_until = 0 /\ s2.next_probe_after = 0
    /\ s2.blacklist_reason = NoReason
    /\ s2.rate_limit_strikes = 0 /\ s2.hard_failures = 0
    /\ s2.probation_successes = 2 /\ s2.probation_target = 2
    /\ s2.used = s.used /\ s2.errors = s.errors

(* C16: a load that brings a known name with a different token sets        *)
(* cooldown_until, blacklist_until and next_probe_after to 0, clears the   *)
(* blacklist reason, zeroes rate_limit_strikes and hard_failures, sets     *)
(* probation to 2 of 2 and carries used and errors over; the token can be  *)
(* picked at once.                                                         *)
C16_ReplacedTokenIsFresh ==
    [][LoadStep =>
          \A i \in 1..Len(states') :
              LET p == LastIndexOfName(states, states'[i].name) IN
              (p # 0 /\ states[p].token # states'[i].token) =>
                  /\ FreshAfterReplace(states[p], states'[i])
                  /\ available(states'[i], now')]_vars

(* C16 witness: a load has replaced the token of a name that had been      *)
(* picked and had failed                                                   *)
C16_Witness ==
    /\ ev.op = "load" /\ ev.name # NoName
    /\ \E i \in 1..Len(states) :
          /\ states[i].name = ev.name
          /\ states[i].used > 0 /\ states[i].errors > 0
          /\ available(states[i], now)

----------------------------------------------------------------------------
(* Properties of the rotation *)

(* pick() returns a token right after a pick() that returned ev.name *)
ConsecutivePicks ==
    /\ ev.op = "pick" /\ ev.name # NoName
    /\ ev'.op = "pick" /\ states' # states

(* position of pool position i in the list av, 0 when absent *)
PosIn(av, i) ==
    LET hits == { k \in 1..Len(av) : av[k] = i } IN
    IF hits = {} THEN 0 ELSE CHOOSE k \in hits : TRUE

(* the token returned by the previous pick is still available: no time has *)
(* passed and no result was applied, so the available set is the one the   *)
(* previous pick chose from                                                *)
StableAvailable == PosIn(AvailableIdx(states, now), IndexOfName(states, ev.name)) # 0

(* C20: while the available set stays the same, each pick returns the      *)
(* token that follows the previously returned one in the cyclic order of   *)
(* the available tokens, so n consecutive picks over n available tokens    *)
(* return n distinct tokens in pool order.                                 *)
C20_RoundRobin ==
    [][ConsecutivePicks /\ StableAvailable =>
          LET av == AvailableIdx(states, now)
              k == PosIn(av, IndexOfName(states, ev.name)) IN
          /\ ev'.name = states[av[(k % Len(av)) + 1]].name
          /\ Len(av) >= 2 => ev'.name # ev.name
          /\ AvailableIdx(states', now') = av =>
                pick_choice(states', index', now') = av[((k + 1) % Len(av)) + 1]]_vars

(* C20 witness: three picks in a row over two available tokens have        *)
(* returned "a", "b" and "a" again                                         *)
C20_Witness ==
    /\ ev.op = "pick" /\ ev.name = "a"
    /\ Len(states) = 2
    /\ states[1].used = 2 /\ states[2].used = 1
    /\ states[1].errors = 0 /\ states[2].errors = 0
    /\ Len(AvailableIdx(states, now)) = 2

----------------------------------------------------------------------------
(* Properties of the management routes *)

(* handler h serves a management request in this step *)
ManageStep(h) == req[h].pc = "idle" /\ req'[h].route # NoRoute

(* C17: a request to any management route whose X-Management-Key header is *)
(* absent or differs from the configured key is answered 401               *)
(* "unauthorized management request" and has no effect: no token reload,   *)
(* no shutdown, no state in the answer.                                    *)
C17_ManagementKeyRequired ==
    [][\A h \in Handlers :
          (ManageStep(h) /\ req'[h].provided # management_key) =>
              /\ req'[h].pc = "done"
              /\ req'[h].resp = Unauthorized
              /\ UNCHANGED <<poolVars, traceVars, stopping, server, store>>]_vars

----------------------------------------------------------------------------
(* Properties of the pool under in-flight results *)

(* C4: once mark_result(name, 401) has been applied to a token, pick()     *)
(* does not return that token for at least DEFAULT_BLACKLIST_SECONDS,      *)
(* whatever pick and mark_result calls follow, as long as no load replaces *)
(* the token.                                                              *)
C4_BlacklistedFor900 ==
    (ev.op = "pick" /\ ev.name # NoName /\ marked401[ev.name] >= 0) =>
        now >= marked401[ev.name] + DEFAULT_BLACKLIST_SECONDS

----------------------------------------------------------------------------
(* Properties of the forwarding loop *)

Proxied(h) == req[h].request_id # 0

(* the positions in the trace log of the events of handler h's request *)
EventsOf(h) ==
    { p \in 1..Len(added) : added[p].src.request_id = req[h].request_id }

(* the final status of attempt k of handler h's request, 0 before it is recorded *)
StatusOfAttempt(h, k) ==
    LET hits == { p \in EventsOf(h) : added[p].src.attempt = k } IN
    IF hits = {} THEN 0 ELSE added[CHOOSE p \in hits : TRUE].src.status

AttemptsBounded ==
    \A h \in Handlers : Proxied(h) =>
        LET r == req[h]
            n == Len(r.sent)
            limit == IF r.pool_count >= 1 THEN r.pool_count ELSE 1 IN
        /\ n <= limit
        /\ \A k \in 1..(n - 1) : StatusOfAttempt(h, k) \in {401, 403, 429}
        /\ r.pc = "done" => r.resp.status # 0

Answered == \A h \in Handlers : (req[h].pc = "loop" ~> req[h].pc = "done")

C3_NoTokenReuse ==
    \A h \in Handlers :
        \A i, j \in 1..Len(req[h].sent) :
            i < j => /\ req[h].sent[i].name # req[h].sent[j].name
                     /\ req[h].sent[i].token # req[h].sent[j].token

(* C7: the status, the headers and the body sent to the client all come    *)
(* from the last attempt performed for the request.                        *)
C7_ResponseFromLastAttempt ==
    \A h \in Handlers :
        (req[h].pc = "done" /\ Len(req[h].sent) >= 1) =>
            LET last == Len(req[h].sent) IN
            /\ req[h].resp.status = StatusOfAttempt(h, last)
            /\ req[h].resp.headers = last
            /\ req[h].resp.body = last

(* the attempts recorded so far by handler h *)
Recorded(h) ==
    IF req[h].pc = "record" THEN Len(req[h].sent) - 1 ELSE Len(req[h].sent)

(* C8: the trace events of one client request all carry its request_id,    *)
(* one event per attempt; their attempt values are 1, 2, ..., k in the     *)
(* order they were appended, and their trace ids increase with attempt,    *)
(* also when another request records events in between.                    *)
C8_TraceAttempts ==
    \A h \in Handlers : Proxied(h) =>
        /\ Cardinality(EventsOf(h)) = Recorded(h)
        /\ \A p \in EventsOf(h) :
              added[p].src.attempt = Cardinality({ q \in EventsOf(h) : q <= p })
        /\ \A p, q \in EventsOf(h) :
              added[p].src.attempt < added[q].src.attempt => added[p].id < added[q].id

(* C8 witness: the two events of request 1 are in the trace with the first *)
(* event of request 2 between them                                         *)
C8_Witness ==
    /\ Len(added) = 3
    /\ added[1].src.request_id = uuid4(1) /\ added[1].src.attempt = 1
    /\ added[2].src.request_id = uuid4(2) /\ added[2].src.attempt = 1
    /\ added[3].src.request_id = uuid4(1) /\ added[3].src.attempt = 2

----------------------------------------------------------------------------
(* Properties of the trace store *)

(* C9: the ids stamped over the lifetime of the store are 1, 2, 3, ... in  *)
(* the order the events are appended, whatever the interleaving of the     *)
(* threads, and the buffer is ordered by strictly increasing id.           *)
C9_IdsSequential ==
    /\ \A k \in 1..Len(added) : added[k].id = k
    /\ \A k \in 1..(Len(items) - 1) : items[k].id < items[k + 1].id

(* C9 witness: the two threads have appended three events in turn          *)
C9_Witness ==
    /\ Len(added) = 3
    /\ added[1].src = 1 /\ added[2].src = 2 /\ added[3].src = 1
    /\ added[3].id = 3

Capacity == IF trace_max >= 1 THEN trace_max ELSE 1
Size == IF Len(added) <= Capacity THEN Len(added) ELSE Capacity
LastOf(q, n) == [k \in 1..n |-> q[Len(q) - n + k]]

(* C10: after n adds the buffer holds the min(n, capacity) most recently   *)
(* added events, capacity = max(1, max_size); list(limit) returns the last *)
(* min(limit, size) items of the buffer when limit > 0 and all of them     *)
(* when limit <= 0, and leaves the buffer as it was.                       *)
C10_RingBuffer ==
    /\ items = LastOf(added, Size)
    /\ \A w \in Threads :
          /\ tpc[w] = "list_release" => items = tlocal[w].items
          /\ tpc[w] = "listed" =>
                LET q == tlocal[w].items
                    limit == tlocal[w].limit
                    n == IF limit <= Len(q) THEN limit ELSE Len(q) IN
                tlocal[w].result = IF limit > 0 THEN LastOf(q, n) ELSE q

(* C10 witness: the oldest event has been evicted from a full buffer and   *)
(* list(1) has returned the newest item of a buffer of two                 *)
C10_Witness ==
    /\ Len(added) = 3 /\ Len(items) = 2 /\ items[1].id = 2
    /\ \E w \in Threads :
          /\ tpc[w] = "listed" /\ tlocal[w].limit = 1
          /\ Len(tlocal[w].items) = 2
          /\ tlocal[w].result = <<tlocal[w].items[2]>>

----------------------------------------------------------------------------
(* Properties of the answers built by the proxy itself *)

(* the answer prepared before the loop: 503 {"error": "no auths available"} *)
NoAuthsAvailable == [status |-> 503, headers |-> 0, body |-> 0, streamed |-> FALSE]

(* handler h answers in this step *)
Answers(h) == req[h].pc # "done" /\ req'[h].pc = "done"

(* handler h calls pick() in this step and gets None *)
PicksNone(h) == req[h].pc = "loop" /\ Answers(h) /\ ev'.op = "pick" /\ ev'.name = NoName

(* the whole response of attempt k of handler h's request *)
ResponseOfAttempt(h, k) ==
    [status |-> StatusOfAttempt(h, k), headers |-> k, body |-> k, streamed |-> FALSE]

(* C18: a proxied request is answered 503 "no auths available" exactly     *)
(* when its first pick returns None, and then nothing was dispatched,      *)
(* recorded in the trace or reported to the pool; when a later pick        *)
(* returns None the client gets the response of the previous attempt.      *)
C18_NoAuthsAvailable ==
    [][\A h \in Handlers :
          /\ (Answers(h) /\ req'[h].resp.body = 0) <=> (PicksNone(h) /\ Len(req[h].sent) = 0)
          /\ (PicksNone(h) /\ Len(req[h].sent) = 0) =>
                /\ req'[h].resp = NoAuthsAvailable
                /\ EventsOf(h) = {}
                /\ states' = states /\ added' = added
          /\ (PicksNone(h) /\ Len(req[h].sent) > 0) =>
                \/ req'[h].resp = ResponseOfAttempt(h, Len(req[h].sent))
                \/ req'[h].resp = [ResponseOfAttempt(h, Len(req[h].sent))
                                      EXCEPT !.streamed = TRUE]]_vars

(* handler h reports the result of an attempt whose dispatch raised *)
ReportsFailedDispatch(h) ==
    /\ req[h].pc = "mark" /\ req'[h].pc # "mark"
    /\ req[h].error_code = "upstream_request_failed"

TransientPenaltyOnly(s, s2) ==
    /\ s2.errors = s.errors + 1
    /\ s2.cooldown_until >= now + DEFAULT_TRANSIENT_COOLDOWN_SECONDS
    /\ s2.blacklist_until = s.blacklist_until
    /\ s2.blacklist_reason = s.blacklist_reason
    /\ s2.rate_limit_strikes = s.rate_limit_strikes
    /\ s2.hard_failures = s.hard_failures
    /\ s2.probation_successes = s.probation_successes
    /\ s2.probation_target = s.probation_target

(* C19: when the upstream dispatch of an attempt raises, the attempt is    *)
(* recorded with status 502, the picked token gets a transient penalty     *)
(* only, no other token is tried, and the client receives 502 with the     *)
(* "upstream request failed" body built for that attempt.                  *)
C19_UpstreamFailure ==
    [][\A h \in Handlers : ReportsFailedDispatch(h) =>
          LET last == Len(req[h].sent)
              n == req[h].auth.name IN
          /\ StatusOfAttempt(h, last) = 502
          /\ (Present(states, n) /\ Present(states', n)) =>
                TransientPenaltyOnly(StateOf(states, n), StateOf(states', n))
          /\ req'[h].pc = "done" /\ req'[h].sent = req[h].sent
          /\ req'[h].resp = ResponseOfAttempt(h, last)]_vars

----------------------------------------------------------------------------
(* Properties of the health report *)

(* the times at which the labels are compared: now and every deadline of   *)
(* the pool, with the second before it                                     *)
ReportTimes == {now} \cup { t \in UNION { {d - 1, d} : d \in Deadlines } : t >= 0 }

LabelsMatchAvailability(t) ==
    LET snap == health_snapshot(states, t) IN
    \A i \in 1..Len(states) :
        LET s == states[i] IN
        /\ snap[i].status \in {"OK", "PROBATION", "BLACKLIST", "COOLDOWN"}
        /\ snap[i].status \in {"OK", "PROBATION"} <=> available(s, t)
        /\ snap[i].status \in {"BLACKLIST", "COOLDOWN"} <=> ~ available(s, t)
        /\ t < s.blacklist_until => snap[i].status = "BLACKLIST"
        /\ (InProbation(s) /\ ~ available(s, t) /\ t >= s.cooldown_until) =>
              snap[i].status = "BLACKLIST"

TalliesSumToTotal(t) ==
    LET c == stats(states, t) IN
    /\ c.total = Len(states)
    /\ c.ok + c.cooldown + c.blacklist + c.probation = c.total

(* C21: the label health_snapshot reports for a token is OK or PROBATION   *)
(* exactly when the token is available for pick and BLACKLIST or COOLDOWN  *)
(* exactly when it is not, BLACKLIST winning over COOLDOWN and a probation *)
(* token waiting for its probe time labelled BLACKLIST; the four tallies   *)
(* of stats() sum to total.                                                *)
C21_LabelsAndTallies ==
    \A t \in ReportTimes : LabelsMatchAvailability(t) /\ TalliesSumToTotal(t)

(* C21 witness: a token whose blacklist has run out was picked as a probe  *)
(* and waits for its next probe time, next to a token that is OK           *)
C21_Witness ==
    /\ Len(states) = 2
    /\ \E i, j \in 1..2 :
          /\ InProbation(states[i]) /\ now >= states[i].blacklist_until
          /\ now >= states[i].cooldown_until /\ now < states[i].next_probe_after
          /\ status(states[i], now) = "BLACKLIST"
          /\ status(states[j], now) = "OK"
          /\ stats(states, now).blacklist = 1 /\ stats(states, now).ok = 1

----------------------------------------------------------------------------
(* Properties of the request body limit *)

(* what the claim expects for each Content-Length header: 0 for accepted *)
ExpectedOfLength(header) ==
    CASE header \in { <<"-", "1">>, <<"a">>, <<"1", ".", "5">>, <<>> } -> 400
      [] header = <<"1", "0", "4", "8", "5", "7", "6", "1">> -> 413
      [] OTHER -> 0

(* handler h starts a proxied request in this step *)
Starts(h) == req[h].pc = "idle" /\ req'[h].pc # "idle" /\ req'[h].route = NoRoute

(* a request that was refused for its Content-Length stays as it was       *)
(* answered                                                                *)
RefusedStays(h) ==
    (req[h].pc = "done" /\ Len(req[h].sent) = 0 /\ req[h].request_id = 0) =>
        req'[h] = req[h]

(* C22: a proxied request with a non-integer or negative Content-Length is *)
(* answered 400 and one with a Content-Length above 10 MiB is answered     *)
(* 413, without a pick, an upstream dispatch, a trace event or a change of *)
(* the pool; a Content-Length of exactly 10 MiB is accepted.               *)
C22_RequestBodyLimit ==
    [][\A h \in Handlers :
          /\ RefusedStays(h)
          /\ Starts(h) =>
                LET expected == ExpectedOfLength(req'[h].content_length) IN
                IF expected = 0
                THEN req'[h].pc = "loop"
                ELSE /\ req'[h].pc = "done"
                     /\ req'[h].resp.status = expected
                     /\ req'[h].sent = <<>> /\ req'[h].request_id = 0
                     /\ UNCHANGED <<poolVars, traceVars>>]_vars

(* C22 witness: one request was refused with 413, another one announcing   *)
(* exactly 10 MiB has been forwarded and answered                          *)
C22_Witness ==
    \E h, g \in Handlers :
        /\ req[h].pc = "done" /\ req[h].resp.status = 413 /\ req[h].sent = <<>>
        /\ req[h].content_length = <<"1", "0", "4", "8", "5", "7", "6", "1">>
        /\ req[g].pc = "done" /\ Len(req[g].sent) = 1
        /\ req[g].content_length = <<"1", "0", "4", "8", "5", "7", "6", "0">>

----------------------------------------------------------------------------
(* Properties of the response body limit *)

(* handler h answers after an attempt whose upstream answer was not an     *)
(* event stream                                                            *)
AnswersBuffered(h) ==
    /\ req[h].pc = "mark" /\ req'[h].pc = "done"
    /\ req[h].upstream.kind = "response" /\ ~ req[h].upstream.stream

(* handler h has received an upstream answer it has not yet reported *)
Received(h) == req[h].pc = "mark" /\ req[h].upstream.kind = "response"

(* C23: a buffered upstream body of exactly 10 MiB is returned to the      *)
(* client unchanged with the upstream status; a body of 10 MiB + 1 bytes   *)
(* or more ends the request with 413 "response body too large" and no      *)
(* retry; event-stream answers are not subject to the size check.          *)
C23_ResponseBodyLimit ==
    [][\A h \in Handlers :
          LET o == req[h].upstream
              last == Len(req[h].sent) IN
          /\ (Received(h) /\ o.stream) => req[h].final_status = o.status
          /\ (Received(h) /\ ~ o.stream /\ o.length > DEFAULT_MAX_RESPONSE_BODY) =>
                /\ req[h].final_status = 413
                /\ req'[h].pc # "mark" => req'[h].pc = "done"
          /\ (AnswersBuffered(h) /\ o.length = DEFAULT_MAX_RESPONSE_BODY) =>
                req'[h].resp = [status |-> o.status, headers |-> last,
                                body |-> last, streamed |-> FALSE]
          /\ (AnswersBuffered(h) /\ o.length > DEFAULT_MAX_RESPONSE_BODY) =>
                req'[h].resp = [status |-> 413, headers |-> last,
                                body |-> last, streamed |-> FALSE]]_vars

----------------------------------------------------------------------------
(* Properties of the rule engine *)

Routed(h) == req[h].pc = "routed"

(* the header names the claim lets through in responses mode *)
AllowedInResponsesMode(key) ==
    LET n == lower(key) IN
    \/ n \in { <<"accept">>, <<"content-type">>, <<"content-encoding">>, <<"user-agent">> }
    \/ n[1] \in {"x-openai-", "openai-"}

HopHeader(key) ==
    lower(key) \in { <<"host">>, <<"content-length">>, <<"connection">>, <<"transfer-encoding">> }

ChatgptBackend(h) ==
    /\ Lower(req[h].host) \in {"chatgpt.com", "chat.openai.com"}
    /\ req[h].base_path = <<"/backend-api">>

(* the rewritten path is /codex/responses or a path or query below it *)
UnderCodexResponses(h) ==
    /\ Len(req[h].rewritten_path) >= 2
    /\ req[h].rewritten_path[1] = "/codex" /\ req[h].rewritten_path[2] = "/responses"
    /\ Len(req[h].rewritten_path) >= 3 => req[h].rewritten_path[3] \in {"/compact", "?x=1"}

(* the rewritten path is /codex/responses, with or without a query string *)
ExactlyCodexResponses(h) ==
    \/ req[h].rewritten_path = <<"/codex", "/responses">>
    \/ req[h].rewritten_path = <<"/codex", "/responses", "?x=1">>

(* C24 as stated: for every request to the chatgpt backend whose rewritten *)
(* path starts with /codex/responses (/codex/responses/compact included)   *)
(* only accept, content-type, content-encoding, user-agent and x-openai-   *)
(* or openai- headers of the client are forwarded; host, content-length,   *)
(* connection and transfer-encoding are dropped in every mode.             *)
C24_HeaderFilterAsStated ==
    \A h \in Handlers : Routed(h) =>
        /\ \A key \in req[h].base_headers : ~ HopHeader(key) /\ key \in req[h].client_headers
        /\ (ChatgptBackend(h) /\ UnderCodexResponses(h)) =>
              \A key \in req[h].base_headers : AllowedInResponsesMode(key)

(* C24: the restriction applies to the requests to the chatgpt backend     *)
(* whose rewritten path, query string aside, is exactly /codex/responses;  *)
(* every other request, /codex/responses/compact included, has all client  *)
(* headers forwarded except host, content-length, connection and           *)
(* transfer-encoding, which are dropped in every mode.                     *)
C24_HeaderFilter ==
    \A h \in Handlers : Routed(h) =>
        /\ \A key \in req[h].base_headers : ~ HopHeader(key) /\ key \in req[h].client_headers
        /\ (ChatgptBackend(h) /\ ExactlyCodexResponses(h)) =>
              \A key \in req[h].base_headers : AllowedInResponsesMode(key)
        /\ ~ (ChatgptBackend(h) /\ ExactlyCodexResponses(h)) =>
              req[h].base_headers = { key \in req[h].client_headers : ~ HopHeader(key) }

(* C24 witness: a request for /v1/responses to the chatgpt backend, sent   *)
(* with every header, is forwarded with the allowed ones only              *)
C24_Witness ==
    \E h \in Handlers :
        /\ Routed(h) /\ ChatgptBackend(h)
        /\ req[h].incoming_path = <<"/v1", "/responses">>
        /\ req[h].client_headers = HeaderNames
        /\ req[h].base_headers =
              { <<"Accept">>, <<"Content-Type">>, <<"content-encoding">>, <<"User-Agent">>,
                <<"X-OpenAI-", "Beta">>, <<"openai-", "beta">> }

(* the rewrite the claim's ordered table gives for a path *)
TableRewrite(p) ==
    LET rest(n) == SubSeq(p, n + 1, Len(p)) IN
    CASE startswith(p, <<"/v1", "/responses", "/compact">>) ->
             <<"/codex", "/responses", "/compact">> \o rest(3)
      [] startswith(p, <<"/responses", "/compact">>) ->
             <<"/codex", "/responses", "/compact">> \o rest(2)
      [] startswith(p, <<"/v1", "/responses">>) -> <<"/codex", "/responses">> \o rest(2)
      [] startswith(p, <<"/responses">>) -> <<"/codex", "/responses">> \o rest(1)
      [] OTHER -> p

(* C25: rewrite_request_path changes a path only when the upstream host is *)
(* chatgpt.com or chat.openai.com and the base path is /backend-api; it    *)
(* then replaces the first matching prefix of the ordered table by its     *)
(* /codex/... counterpart and keeps the suffix, leaves every other path    *)
(* unchanged, and rewriting a rewritten path changes nothing.              *)
C25_RewriteIdempotent ==
    \A h \in Handlers : Routed(h) =>
        LET r == req[h] IN
        /\ r.rewritten_path # r.incoming_path => ChatgptBackend(h)
        /\ ChatgptBackend(h) => r.rewritten_path = TableRewrite(r.incoming_path)
        /\ rewrite_request_path(r.rewritten_path, r.host, r.base_path) = r.rewritten_path

(* C25 witness: /v1/responses/compact was rewritten to                     *)
(* /codex/responses/compact for the upstream Chat.OpenAI.com               *)
C25_Witness ==
    \E h \in Handlers :
        /\ Routed(h) /\ req[h].host = "Chat.OpenAI.com"
        /\ req[h].incoming_path = <<"/v1", "/responses", "/compact">>
        /\ req[h].rewritten_path = <<"/codex", "/responses", "/compact">>

----------------------------------------------------------------------------
(* Properties of start-up and shutdown *)

NothingServed ==
    /\ ~ server.bound
    /\ \A h \in Handlers : req[h] = IdleReq
    /\ items = <<>>

StartupRefused ==
    /\ server.phase \in {"start", "failed"}
    /\ server.phase = "failed" => server.error # NoError
    /\ NothingServed

(* C26: run_proxy_server never binds the listening socket nor serves a     *)
(* request when the host is not a loopback host and allow_non_loopback is  *)
(* false, when the management key is empty after trimming, or when no      *)
(* valid token was loaded; in each case it fails at start-up with an error *)
C26_StartupRefusals ==
    /\ (server.host \notin {<<"127.0.0.1">>, <<"LocalHost">>} /\ ~ server.allow_non_loopback)
          => StartupRefused
    /\ server.management_key \in {<<>>, <<32>>} => StartupRefused
    /\ (server.phase # "start" /\ count(states) = 0)
          => server.phase = "failed" /\ server.error # NoError /\ NothingServed

(* C26 witness: start-up has failed for want of a valid token, after the   *)
(* host and the key were accepted                                          *)
C26_Witness ==
    /\ server.phase = "failed" /\ server.error = "no valid auth files found"
    /\ server.host = <<"0.0.0.0">> /\ server.allow_non_loopback
    /\ ~ server.bound

(* C27: every request handler in flight when shutdown was initiated runs   *)
(* to completion, without being interrupted, before the server is closed   *)
C27_HandlersFinishBeforeClose ==
    /\ server.phase \in {"closed", "exited"} => \A h \in Handlers : ~ InFlight(h)
    /\ \A h \in Handlers : req[h].pc # "killed"

----------------------------------------------------------------------------
(* Properties of the auth store *)

(* the token of an object by the stated precedence *)
TokenByPrecedence(file) ==
    LET nested == IF file.tokens.dict THEN file.tokens.access_token ELSE Missing
        NonEmpty(v) == v # Missing /\ v # <<>> IN
    CASE NonEmpty(nested) -> nested
      [] NonEmpty(file.access_token) -> file.access_token
      [] NonEmpty(file.OPENAI_API_KEY) -> file.OPENAI_API_KEY
      [] NonEmpty(file.api_key) -> file.api_key
      [] NonEmpty(file.openai_api_key) -> file.openai_api_key
      [] NonEmpty(file.token) -> file.token
      [] OTHER -> <<>>

(* the files that parse to an object yielding a non-empty trimmed token *)
YieldsToken(file) ==
    /\ file.kind = "object"
    /\ SelectSeq(TokenByPrecedence(file), LAMBDA c : c # " ") # <<>>

(* the email of the id_token payload, for the id_tokens of FileContents *)
IdTokenEmail(file) ==
    IF file.tokens.dict /\ file.tokens.id_token = Jwt("b64{email:jwt@x}")
    THEN <<"jwt@x">> ELSE Missing

(* C28: load_auth_records returns one record per .json file that parses to *)
(* an object yielding a non-empty trimmed token, in sorted filename order, *)
(* with the token chosen by the precedence tokens.access_token,            *)
(* access_token, OPENAI_API_KEY, first non-empty of api_key /              *)
(* openai_api_key / token; other files are skipped without raising, and an *)
(* email found in the id_token payload overrides every other email source  *)
C28_LoadAuthRecords ==
    store.pc = "loaded" =>
        LET expected == SelectSeq(<<"a.json", "b.json">>,
                                  LAMBDA n : YieldsToken(store.dir[n])) IN
        /\ ~ store.raised
        /\ Len(store.records) = Len(expected)
        /\ \A i \in 1..Len(expected) :
              LET file == store.dir[expected[i]]
                  rec == store.records[i] IN
              /\ rec.name = expected[i]
              /\ rec.token = SelectSeq(TokenByPrecedence(file), LAMBDA c : c # " ")
              /\ IdTokenEmail(file) # Missing => rec.email = IdTokenEmail(file)

(* the records are as stated for the directories in which no id_token     *)
(* carries a payload that is not an object                                 *)
C28_LoadedWhenPayloadsAreObjects ==
    (\A n \in {"a.json", "b.json"} :
        store.dir[n].tokens.id_token # Jwt("b64[1]")) => C28_LoadAuthRecords

----------------------------------------------------------------------------
(* Properties of the hard blacklist and of transient failures *)

(* the fields of the token after a hard-blacklist transition at `now` *)
HardBlacklisted(old, new) ==
    /\ new.probation_successes = 0
    /\ new.probation_target = 2
    /\ new.next_probe_after = new.blacklist_until
    /\ new.cooldown_until >= new.blacklist_until
    /\ new.blacklist_until >= now + 900
    /\ new.errors > old.errors
    /\ new.hard_failures = old.hard_failures + 1

ReasonOf401Or403(st, code) ==
    IF code # NoCode /\ code # "" THEN code
    ELSE IF st = 401 THEN "token_invalid" ELSE "forbidden"

(* C29 as stated: after any hard-blacklist transition (401, 403, or 429 at *)
(* 5 or more strikes) the fields are as above and blacklist_reason is the  *)
(* supplied error_code if it is not empty, else token_invalid for 401 and  *)
(* forbidden for 403                                                       *)
C29_HardBlacklistAsStated ==
    [][HardFailureStep =>
          /\ HardBlacklisted(states[1], states'[1])
          /\ \A st \in OneStatuses, code \in OneCodes :
                PoolMarkResult("a", st, code, NoSeconds) =>
                   /\ st \in {401, 403} =>
                         states'[1].blacklist_reason = ReasonOf401Or403(st, code)
                   /\ code # NoCode => states'[1].blacklist_reason = code]_vars

(* C29: after any hard-blacklist transition (401, 403, or 429 at 5 or more *)
(* strikes) the token has probation_successes = 0, probation_target = 2,   *)
(* next_probe_after = blacklist_until, cooldown_until >= blacklist_until   *)
(* >= now + 900, errors and hard_failures incremented; blacklist_reason is *)
(* the supplied error_code if not empty, else token_invalid or forbidden,  *)
(* for 401 and 403, and rate_limited_persistent for 429 whatever the       *)
(* error_code                                                              *)
C29_HardBlacklist ==
    [][HardFailureStep =>
          /\ HardBlacklisted(states[1], states'[1])
          /\ \A st \in OneStatuses, code \in OneCodes :
                PoolMarkResult("a", st, code, NoSeconds) =>
                   /\ st \in {401, 403} =>
                         states'[1].blacklist_reason = ReasonOf401Or403(st, code)
                   /\ st = 429 => /\ states'[1].rate_limit_strikes >= 5
                                  /\ states'[1].blacklist_reason = "rate_limited_persistent"]_vars

(* C29 witness: a 403 with an error code has blacklisted a token that had  *)
(* one hard failure behind it and had been picked                          *)
C29_Witness ==
    /\ Len(states) = 1 /\ ev.op = "mark_result" /\ ev.status = 403
    /\ states[1].hard_failures = 2 /\ states[1].probation_successes = 0
    /\ states[1].blacklist_reason = "token_expired"
    /\ states[1].used >= 1

(* the statuses that are neither a success nor 401, 403 or 429 *)
OtherFailure(st) == ~ (200 <= st /\ st <= 399) /\ st \notin {401, 403, 429}

(* everything of a token state but errors and cooldown_until *)
Rest(s) == [s EXCEPT !.errors = 0, !.cooldown_until = 0]

(* C30: a result that is neither a success nor 401, 403 or 429 (500 and    *)
(* above, 408, 409, 425, or any other status such as 400, 404, 413)        *)
(* changes only the named token's errors (+1) and cooldown_until (raised   *)
(* to at least now + 8 s, never lowered); its other fields and every other *)
(* token's state are unchanged                                             *)
C30_TransientFailure ==
    [][(ev'.op = "mark_result" /\ OtherFailure(ev'.status)
            /\ IndexOfName(states, ev'.name) # 0) =>
          LET p == IndexOfName(states, ev'.name) IN
          /\ Len(states') = Len(states) /\ index' = index
          /\ \A i \in 1..Len(states) : i # p => states'[i] = states[i]
          /\ Rest(states'[p]) = Rest(states[p])
          /\ states'[p].errors = states[p].errors + 1
          /\ states'[p].cooldown_until >= now + 8
          /\ states'[p].cooldown_until >= states[p].cooldown_until]_vars

(* C30 witness: a 404 for "a" has come while "a" was cooling down for      *)
(* longer than 8 s after a 429, and "b" carries a blacklist                *)
C30_Witness ==
    /\ Len(states) = 2 /\ ev.op = "mark_result" /\ ev.status = 404 /\ ev.name = "a"
    /\ states[1].errors = 2 /\ states[1].rate_limit_strikes = 1
    /\ states[1].cooldown_until > now + 8
    /\ states[2].hard_failures = 1

----------------------------------------------------------------------------
(* Properties of the attempt bookkeeping *)

(* handler h takes a step *)
Steps(h) == req'[h] # req[h]

----------------------------------------------------------------------------
(* Properties of probation and of the strike count, as the claims state them *)

(* the previous pool call reported the result st-class for the only token  *)
PreviousResult == ev.op \in {"mark_result", "mark_cooldown"} /\ Len(states) = 1 /\ ev.name = states[1].name

(* C32: a blacklisted token needs probation_target (2) consecutive         *)
(* successes to leave probation: a success reported right after a          *)
(* non-success result (a transient failure or a 429) for a token that had  *)
(* one success of its probation does not complete the probation.           *)
C32_ConsecutiveSuccessesAsStated ==
    [][(/\ SuccessStep /\ ResultStep /\ PreviousResult
        /\ ev.status \in {429, 500}
        /\ states[1].probation_target = 2
        /\ states[1].probation_successes = 1) =>
          /\ InProbation(states'[1])
          /\ status(states'[1], now) # "OK"]_vars

(* C33: rate_limit_strikes counts the 429 results most recently reported   *)
(* in a row: a success leaves it 0, and a 429 reported right after a       *)
(* non-429 result (success, transient failure, 401 or 403) for the token   *)
(* makes it 1.                                                             *)
C33_StrikesCountConsecutive429AsStated ==
    [][/\ (SuccessStep /\ ResultStep) => states'[1].rate_limit_strikes = 0
       /\ (Any429Step /\ PreviousResult /\ ev.status # 429) =>
             states'[1].rate_limit_strikes = 1]_vars

(* C34: every token of the pool has 0 <= probation_successes <=            *)
(* probation_target = 2, and a token that is not in probation has          *)
(* blacklist_until = 0, no blacklist_reason and next_probe_after = 0, so   *)
(* no token past its probation target has blacklist_until > now.           *)
C34_ProbationBounds ==
    \A i \in 1..Len(states) :
        LET s == states[i] IN
        /\ s.probation_target = PROBATION_SUCCESS_TARGET
        /\ 0 <= s.probation_successes /\ s.probation_successes <= s.probation_target
        /\ ~ InProbation(s) =>
              /\ s.blacklist_until = 0
              /\ s.blacklist_reason = NoReason
              /\ s.next_probe_after = 0
              /\ ~ (s.blacklist_until > now)

(* a token that was hard-blacklisted and probed has just completed its probation *)
C34_Witness ==
    /\ Len(states) = 1 /\ ev = Event("mark_result", "a", 200)
    /\ states[1].hard_failures > 0 /\ probed["a"] >= 0
    /\ ~ InProbation(states[1])

----------------------------------------------------------------------------
(* Properties of the hard-failure count and of the frame of pick and       *)
(* mark_result                                                             *)

(* the blacklist ttl of the n-th hard failure of a token *)
BlacklistTtl(n) == Min(MAX_BLACKLIST_SECONDS, DEFAULT_BLACKLIST_SECONDS * Pow2(Min(Max(n - 1, 0), 4)))

(* C38: pick and mark_result never lower hard_failures, a success that     *)
(* completes probation included, and a hard blacklist raises it by one and *)
(* blacklists for a ttl at least as long as that of the previous hard      *)
(* failure; a load keeps the count of a token it keeps and starts every    *)
(* other state at 0.                                                       *)
C38_HardFailuresKept ==
    [][/\ ~ LoadStep =>
             /\ Len(states') = Len(states)
             /\ \A i \in 1..Len(states) :
                   /\ states'[i].hard_failures >= states[i].hard_failures
                   /\ (PickStep \/ SuccessStep) => states'[i].hard_failures = states[i].hard_failures
                   /\ states'[i].hard_failures > states[i].hard_failures =>
                         /\ states'[i].hard_failures = states[i].hard_failures + 1
                         /\ BlacklistTtl(states'[i].hard_failures) >= BlacklistTtl(states[i].hard_failures)
                         /\ states'[i].blacklist_until >= now + BlacklistTtl(states'[i].hard_failures)
       /\ LoadStep =>
             \A i \in 1..Len(states') :
                 LET p == IndexOfName(states, states'[i].name) IN
                 states'[i].hard_failures =
                     IF p # 0 /\ states[p].token = states'[i].token
                     THEN states[p].hard_failures ELSE 0]_vars

(* the token is hard-blacklisted a second time, for 1800 s, after its      *)
(* first blacklist of 900 s ran out and it was picked as a probe           *)
C38_Witness ==
    /\ Len(states) = 1 /\ ev = Event("mark_result", "a", 401)
    /\ states[1].hard_failures = 2 /\ states[1].errors = 2
    /\ probed["a"] >= DEFAULT_BLACKLIST_SECONDS
    /\ states[1].blacklist_until = now + 1800

(* C39: pick() changes only the cursor and, of the token it returns, used  *)
(* (+1) and in probation next_probe_after (now + 20 s); every other field  *)
(* and every other token is unchanged, and a pick that returns none        *)
(* changes neither the cursor nor any token. No other call changes used:   *)
(* mark_result keeps it, and a load carries it for a name it already       *)
(* holds and starts a new name at 0, so used counts the picks that         *)
(* returned the token since its name entered the pool.                     *)
C39_PickFrame ==
    [][/\ (PickStep /\ ev'.name = NoName) => states' = states /\ index' = index
       /\ (PickStep /\ ev'.name # NoName) =>
             /\ PickedPos # 0 /\ Len(states') = Len(states)
             /\ \A i \in 1..Len(states) :
                   states'[i] =
                       IF i # PickedPos THEN states[i]
                       ELSE [states[i] EXCEPT
                               !.used = @ + 1,
                               !.next_probe_after =
                                   IF InProbation(states[i])
                                   THEN now + PROBATION_PROBE_INTERVAL_SECONDS ELSE @]
       /\ (~ PickStep /\ ~ LoadStep) =>
             /\ Len(states') = Len(states)
             /\ \A i \in 1..Len(states) : states'[i].used = states[i].used
       /\ LoadStep =>
             \A i \in 1..Len(states') :
                 LET p == IndexOfName(states, states'[i].name) IN
                 states'[i].used = IF p # 0 THEN states[p].used ELSE 0]_vars

(* pick has just returned the probation token "a" of a pool of two, as its probe *)
C39_Witness ==
    /\ Len(states) = 2 /\ ev = Event("pick", "a", 0)
    /\ InProbation(states[1]) /\ states[1].used = 1
    /\ states[1].next_probe_after = now + PROBATION_PROBE_INTERVAL_SECONDS

(* C40: mark_result and mark_cooldown for a name the pool does not hold,   *)
(* for instance one a reload removed, complete and change no token's       *)
(* state, nor the cursor.                                                  *)
C40_UnknownNameIgnored ==
    [][(/\ ev'.op \in {"mark_result", "mark_cooldown"}
        /\ IndexOfName(states, ev'.name) = 0) =>
          states' = states /\ index' = index]_vars

(* a 401 has just been reported for "b", which the reload before it had    *)
(* removed from the pool, while "a" is cooling down                        *)
C40_Witness ==
    /\ ev = Event("mark_result", "b", 401)
    /\ Len(states) = 1 /\ states[1].name = "a"
    /\ states[1].rate_limit_strikes = 1 /\ states[1].hard_failures = 0

(* a legacy cooldown has just been requested for "b", which the pool does  *)
(* not hold                                                                *)
C40_WitnessCooldown ==
    /\ ev = Event("mark_cooldown", "b", 429)
    /\ Len(states) = 1 /\ states[1].name = "a" /\ states[1].cooldown_until = 0

----------------------------------------------------------------------------
(* Properties of results reported across a reload                          *)

(* C35: a result is applied only to the token value that produced it: when *)
(* a load has replaced the token of the name a request picked, the         *)
(* mark_result of that request's attempt does not blacklist or cool down   *)
(* the new token.                                                          *)
C35_ResultOnlyForItsTokenAsStated ==
    [][\A h \in Handlers :
          LET p == IndexOfName(states, req[h].auth.name) IN
          (/\ Steps(h) /\ req[h].pc = "mark"
           /\ p # 0 /\ states[p].token # req[h].auth.token) =>
              /\ states'[p].token = states[p].token
              /\ states'[p].blacklist_until <= states[p].blacklist_until
              /\ states'[p].cooldown_until <= states[p].cooldown_until]_vars

----------------------------------------------------------------------------
(* Properties of the headers sent upstream                                 *)

AuthorizationItems(d) == MatchesOf(d, <<"Authorization">>)

(* C37: every upstream attempt carries exactly one Authorization header,   *)
(* whatever its casing, and its value is Bearer followed by the token      *)
(* picked for the attempt; no value the client sent under an Authorization *)
(* name is among the headers, nor the token or the chatgpt-account-id of   *)
(* an earlier attempt of the request made with another token.              *)
C37_OneAuthorizationPerAttempt ==
    \A h \in Handlers : \A k \in 1..Len(req[h].sent) :
        LET hs == upstream_headers(h, k)
            auth == req[h].sent[k] IN
        /\ Cardinality(AuthorizationItems(hs)) = 1
        /\ \A i \in AuthorizationItems(hs) : hs[i].value = Bearer(auth.token)
        /\ \A i \in 1..Len(hs) :
              /\ \A m \in AuthorizationItems(req[h].message) :
                    hs[i].value # req[h].message[m].value
              /\ \A j \in 1..(k - 1) :
                    req[h].sent[j].token # auth.token =>
                        /\ hs[i].value # Bearer(req[h].sent[j].token)
                        /\ record_account_id(req[h].sent[j].name) # <<>> =>
                              hs[i].value # record_account_id(req[h].sent[j].name)

----------------------------------------------------------------------------
(* Properties of the rotation over time                                    *)

Holds(name) == \E i \in 1..Len(states) : states[i].name = name /\ available(states[i], now)

(* C36: no starvation: when pick() is called again and again for ever and  *)
(* the token b is available all the time, hence at every one of those      *)
(* picks, some pick returns b, whatever the results reported for the other *)
(* tokens in between.  Runs in which the picks stop are left aside by the  *)
(* first hypothesis.                                                       *)
C36_NoStarvationAsStated ==
    ([]<><<PickRound>>_vars /\ []Holds("b")) => <>(ev = Event("pick", "b", 0))

====
